---- MODULE Spec2Model ----
(***************************************************************************)
(* A model of BTYPE's type table: BTypeCache (src/src/btype_factory.cpp),  *)
(* the BType node classes (src/src/btype.h) and StructType::sort           *)
(* (src/src/btype.cpp).                                                    *)
(*                                                                         *)
(* A node is a record of the heap; a handle (std::shared_ptr<BType>) is    *)
(* the node's position in the heap, NULL being the null pointer.  Strings  *)
(* that the code compares or concatenates (names, field names) are         *)
(* sequences of character codes.  Each constructor of BTypeCache is        *)
(* executed by a thread in the steps its lock scopes delimit.              *)
(***************************************************************************)
EXTENDS Integers, Sequences, FiniteSets, TLC

\* ------------------------------------------------------------- bounds
\* Number of threads calling the factory concurrently (Spec).
NumThreads == 2
\* Largest number of nodes the concurrent runs create (Spec).
MaxNodes == 2
\* Largest number of different calls a single-threaded run makes (SeqSpec).
MaxSeqCalls == 4
\* Largest number of RichType elements of a document that is read (LoadSpec).
MaxRecords == 3
\* The number of bits of size_t in the hash arithmetic (at most 16).
HashBits == 8

\* ---------------------------------------------------------- constants
\* nullptr
NULL == 0
\* BType::m_index before BTypeCache::index assigns it (the largest value of
\* the model's integers stands for the largest size_t).
SIZE_MAX == 2147483647
\* ';', which getOrCreateStruct appends to every field name of the key.
Separator == 59

\* The low 16 bits of the constant 0x9e3779b9 of hash_combine_string.
GoldenRatioLow == 31161

Threads == 1..NumThreads
\* The thread of the single-threaded runs.
MainThread == CHOOSE t \in Threads : \A u \in Threads : t <= u

LeafKinds == {"INTEGER", "BOOLEAN", "FLOAT", "REAL", "STRING"}
Kinds == LeafKinds \cup
         {"ProductType", "PowerType", "Struct", "AbstractSet", "EnumeratedSet"}

Mutexes == {"m_basic", "m_mutexProduct", "m_mutexPower", "m_mutexAbstract",
            "m_mutexEnumerated", "m_mutexStruct", "m_mutexIndex"}

VARIABLES
  heap,              \* the BType objects allocated so far, by handle
  m_basicTypes,      \* m_INTEGER .. m_STRING: leaf kind -> handle or NULL
  m_productTypes,    \* <<lhs, rhs>> -> handle
  m_powerTypes,      \* content -> handle
  m_abstractSets,    \* name -> handle
  m_enumeratedSets,  \* name -> handle
  m_structTypes,     \* key string -> handle
  m_index,           \* the index table, a sequence of handles
  mutex,             \* mutex -> [writer, readers]
  pc,                \* thread -> its position in the call it executes
  req,               \* thread -> the call it executes
  sortedFields,      \* thread -> getOrCreateStruct's local sortedFields
  newType,           \* thread -> the constructor's local newType
  ret,               \* thread -> what its last size() or at() returned
  returned,          \* history: every (request, handle) a constructor returned
  createdBy,         \* history: handle -> the request whose call built the node
  inputs,            \* the inputs the run's calls are drawn from
  document,          \* the RichType elements of the document, in its order
  source,            \* history: the store writeXMLRichTypesInfo wrote
  richTypeElements,  \* buildFromXML's local richTypeElements
  types,             \* buildFromXML's local types
  frames,            \* the typeOfXmlElement invocations in progress
  loadI,             \* the driving pass's i
  loadPc,            \* buildFromXML's position
  loadError          \* the message of the Exception buildFromXML has thrown

\* The variables of the writer and the reader.
xml == <<document, source, richTypeElements, types, frames, loadI, loadPc,
         loadError>>

vars == <<heap, m_basicTypes, m_productTypes, m_powerTypes, m_abstractSets,
          m_enumeratedSets, m_structTypes, m_index, mutex, pc, req,
          sortedFields, newType, ret, returned, createdBy, inputs,
          document, source, richTypeElements, types, frames, loadI, loadPc,
          loadError>>

caches == <<m_basicTypes, m_productTypes, m_powerTypes, m_abstractSets,
            m_enumeratedSets, m_structTypes>>

\* ------------------------------------------------------------- strings
\* std::string operator< : lexicographic order on character codes.
RECURSIVE StrLess(_, _)
StrLess(a, b) ==
  IF b = <<>> THEN FALSE
  ELSE IF a = <<>> THEN TRUE
  ELSE IF Head(a) < Head(b) THEN TRUE
  ELSE IF Head(a) > Head(b) THEN FALSE
  ELSE StrLess(Tail(a), Tail(b))

\* -------------------------------------------------------------- nodes
\* BType(Kind kind): m_index starts at SIZE_MAX, m_hash_valid at false and
\* m_hash at 0.
BType(kind) ==
  [m_kind |-> kind, m_index |-> SIZE_MAX, m_hash_valid |-> FALSE, m_hash |-> 0,
   lhs |-> NULL, rhs |-> NULL,
   m_content |-> NULL, m_name |-> <<>>, m_values |-> <<>>, m_fields |-> <<>>]

ProductType(l, r) == [BType("ProductType") EXCEPT !.lhs = l, !.rhs = r]

PowerType(content) == [BType("PowerType") EXCEPT !.m_content = content]

AbstractSet(name) == [BType("AbstractSet") EXCEPT !.m_name = name]

EnumeratedSet(name, values) ==
  [BType("EnumeratedSet") EXCEPT !.m_name = name, !.m_values = values]

\* The permutations of a sequence.
Orderings(s) ==
  LET n == Len(s)
      bij == {p \in [1..n -> 1..n] : \A i, j \in 1..n : i # j => p[i] # p[j]}
  IN {[i \in 1..n |-> s[p[i]]] : p \in bij}

\* Whether a field sequence is ordered for StructType::sort's comparator
\* a.first < b.first: no later field is less than an earlier one.
IsSorted(fields) ==
  \A i, j \in 1..Len(fields) :
     i < j => ~StrLess(fields[j].first, fields[i].first)

\* StructType::sort without the sort: the fields as given.
SortNone(fields) == {fields}

\* StructType::sort: std::sort is not stable, so fields of equal name end in
\* an order the library chooses: every sorted permutation is a result.
Sort(fields) == {g \in Orderings(fields) : IsSorted(g)}

\* StructType(fields): m_fields{sort(fields)}; the results it can have.
StructType(fields) ==
  {[BType("Struct") EXCEPT !.m_fields = g] : g \in Sort(fields)}

\* A key string that also tells the field types apart.
RECURSIVE KeyStringTyped(_)
KeyStringTyped(fields) ==
  IF fields = <<>> THEN <<>>
  ELSE Head(fields).first \o <<Head(fields).second, Separator>>
       \o KeyStringTyped(Tail(fields))

\* getOrCreateStruct's keyString: each field name followed by ';'.
RECURSIVE KeyString(_)
KeyString(fields) ==
  IF fields = <<>> THEN <<>>
  ELSE Head(fields).first \o <<Separator>> \o KeyString(Tail(fields))

\* ----------------------------------------------------------- requests
NoReq == [op |-> "none"]
NoRet == [kind |-> "none", val |-> 0]

\* BTypeFactory::Integer .. String, and the leaf kind each makes.
LeafOps == {"Integer", "Boolean", "Float", "Real", "String"}
LeafKind(op) ==
  CASE op = "Integer" -> "INTEGER"
    [] op = "Boolean" -> "BOOLEAN"
    [] op = "Float" -> "FLOAT"
    [] op = "Real" -> "REAL"
    [] op = "String" -> "STRING"

ConstructorOps ==
  LeafOps \cup {"Product", "PowerSet", "AbstractSet", "EnumeratedSet", "Struct"}

\* The handles a client holds: those a constructor has returned.
Known == {e.h : e \in returned}

\* The field lists over the given lists of names, with types among K.
FieldLists(nameLists, K) ==
  UNION {{[i \in 1..Len(nl) |-> [first |-> nl[i], second |-> ty[i]]] :
            ty \in [1..Len(nl) -> K]} : nl \in nameLists}

\* The constructor calls over the inputs U, with handles among K.
ConstructorCalls(U, K) ==
  {[op |-> o] : o \in U.leaves}
  \cup (IF "Product" \in U.ops
        THEN {[op |-> "Product", lhs |-> l, rhs |-> r] : l \in K, r \in K}
        ELSE {})
  \cup (IF "PowerSet" \in U.ops
        THEN {[op |-> "PowerSet", content |-> c] : c \in K}
        ELSE {})
  \cup (IF "AbstractSet" \in U.ops
        THEN {[op |-> "AbstractSet", name |-> n] : n \in U.names}
        ELSE {})
  \cup (IF "EnumeratedSet" \in U.ops
        THEN {[op |-> "EnumeratedSet", name |-> n, values |-> v] :
                n \in U.names, v \in U.values}
        ELSE {})
  \cup (IF "Struct" \in U.ops
        THEN {[op |-> "Struct", fields |-> f] :
                f \in FieldLists(U.fieldNames,
                                 {h \in K : heap[h].m_kind \in U.fieldKinds})}
        ELSE {})

\* size() and at(index), index up to one past the table's end.
TableCalls ==
  {[op |-> "size"]} \cup {[op |-> "at", index |-> i] : i \in 0..Len(m_index)}

\* The mutex that guards the partition a constructor works on.
MutexOf(r) ==
  CASE r.op \in LeafOps -> "m_basic"
    [] r.op = "Product" -> "m_mutexProduct"
    [] r.op = "PowerSet" -> "m_mutexPower"
    [] r.op = "AbstractSet" -> "m_mutexAbstract"
    [] r.op = "EnumeratedSet" -> "m_mutexEnumerated"
    [] r.op = "Struct" -> "m_mutexStruct"

\* std::unordered_map::find, NULL standing for end().
MapFind(map, key) == IF key \in DOMAIN map THEN map[key] ELSE NULL

\* A lookup that takes an enumerated set of other values for absent.
FindEnumByValues(r, sf) ==
  CASE r.op \in LeafOps -> m_basicTypes[LeafKind(r.op)]
    [] r.op = "Product" -> MapFind(m_productTypes, <<r.lhs, r.rhs>>)
    [] r.op = "PowerSet" -> MapFind(m_powerTypes, r.content)
    [] r.op = "AbstractSet" -> MapFind(m_abstractSets, r.name)
    [] r.op = "EnumeratedSet" ->
         LET it == MapFind(m_enumeratedSets, r.name)
         IN IF it # NULL /\ heap[it].m_values = r.values THEN it ELSE NULL
    [] r.op = "Struct" -> MapFind(m_structTypes, KeyString(sf))

\* A lookup that finds a product under its children in either order.
FindProductEitherOrder(r, sf) ==
  CASE r.op \in LeafOps -> m_basicTypes[LeafKind(r.op)]
    [] r.op = "Product" ->
         IF <<r.lhs, r.rhs>> \in DOMAIN m_productTypes
         THEN m_productTypes[<<r.lhs, r.rhs>>]
         ELSE MapFind(m_productTypes, <<r.rhs, r.lhs>>)
    [] r.op = "PowerSet" -> MapFind(m_powerTypes, r.content)
    [] r.op = "AbstractSet" -> MapFind(m_abstractSets, r.name)
    [] r.op = "EnumeratedSet" -> MapFind(m_enumeratedSets, r.name)
    [] r.op = "Struct" -> MapFind(m_structTypes, KeyString(sf))

\* The lookup each constructor makes in its slot or partition, sf being
\* getOrCreateStruct's sortedFields.
Find(r, sf) ==
  CASE r.op \in LeafOps -> m_basicTypes[LeafKind(r.op)]
    [] r.op = "Product" -> MapFind(m_productTypes, <<r.lhs, r.rhs>>)
    [] r.op = "PowerSet" -> MapFind(m_powerTypes, r.content)
    [] r.op = "AbstractSet" -> MapFind(m_abstractSets, r.name)
    [] r.op = "EnumeratedSet" -> MapFind(m_enumeratedSets, r.name)
    [] r.op = "Struct" -> MapFind(m_structTypes, KeyString(sf))

\* No second lookup: the node is taken for absent.
FindUniqueMiss(r, sf) == NULL

\* The lookup under the shared lock, and the one repeated under the
\* exclusive lock.
FindShared(r, sf) == Find(r, sf)
FindUnique(r, sf) == Find(r, sf)

\* The nodes the constructor's make_shared / new can build.
Construct(r, sf) ==
  CASE r.op \in LeafOps -> {BType(LeafKind(r.op))}
    [] r.op = "Product" -> {ProductType(r.lhs, r.rhs)}
    [] r.op = "PowerSet" -> {PowerType(r.content)}
    [] r.op = "AbstractSet" -> {AbstractSet(r.name)}
    [] r.op = "EnumeratedSet" -> {EnumeratedSet(r.name, r.values)}
    [] r.op = "Struct" -> StructType(sf)

\* The node is not stored.
InsertLost(r, sf, h) == UNCHANGED caches

\* The slot or partition after the constructor stores handle h in it.
Insert(r, sf, h) ==
  /\ m_basicTypes' = IF r.op \in LeafOps
                     THEN [m_basicTypes EXCEPT ![LeafKind(r.op)] = h]
                     ELSE m_basicTypes
  /\ m_productTypes' = IF r.op = "Product"
                       THEN (<<r.lhs, r.rhs>> :> h) @@ m_productTypes
                       ELSE m_productTypes
  /\ m_powerTypes' = IF r.op = "PowerSet"
                     THEN (r.content :> h) @@ m_powerTypes
                     ELSE m_powerTypes
  /\ m_abstractSets' = IF r.op = "AbstractSet"
                       THEN (r.name :> h) @@ m_abstractSets
                       ELSE m_abstractSets
  /\ m_enumeratedSets' = IF r.op = "EnumeratedSet"
                         THEN (r.name :> h) @@ m_enumeratedSets
                         ELSE m_enumeratedSets
  /\ m_structTypes' = IF r.op = "Struct"
                      THEN (KeyString(sf) :> h) @@ m_structTypes
                      ELSE m_structTypes

\* -------------------------------------------------------------- locks
\* std::shared_mutex: lock_shared waits for the writer, lock for everyone.
CanLockShared(m) == mutex[m].writer = NULL
CanLockUnique(m) == mutex[m].writer = NULL /\ mutex[m].readers = {}
LockShared(m, t) == [mutex EXCEPT ![m].readers = @ \cup {t}]
LockUnique(m, t) == [mutex EXCEPT ![m].writer = t]
\* A writeLock scope that does not end.
UnlockUniqueLeak(m, t) == mutex

\* A readLock scope that does not end.
UnlockSharedLeak(m, t) == mutex

\* The end of a readLock / writeLock scope.
UnlockShared(m, t) == [mutex EXCEPT ![m].readers = @ \ {t}]
UnlockUnique(m, t) == [mutex EXCEPT ![m].writer = NULL]

\* The mutexes a thread holds.
Held(t) == {m \in Mutexes : mutex[m].writer = t \/ t \in mutex[m].readers}

\* --------------------------------------------------------------- Init
EmptyStore ==
  /\ heap = <<>>
  /\ m_basicTypes = [k \in LeafKinds |-> NULL]
  /\ m_productTypes = <<>>
  /\ m_powerTypes = <<>>
  /\ m_abstractSets = <<>>
  /\ m_enumeratedSets = <<>>
  /\ m_structTypes = <<>>
  /\ m_index = <<>>
  /\ mutex = [m \in Mutexes |-> [writer |-> NULL, readers |-> {}]]
  /\ pc = [t \in Threads |-> "idle"]
  /\ req = [t \in Threads |-> NoReq]
  /\ sortedFields = [t \in Threads |-> <<>>]
  /\ newType = [t \in Threads |-> NULL]
  /\ ret = [t \in Threads |-> NoRet]
  /\ returned = {}
  /\ createdBy = <<>>

\* No document is written or read.
NoDocument ==
  /\ document = <<>>
  /\ source = [heap |-> <<>>, m_index |-> <<>>]
  /\ richTypeElements = <<>>
  /\ types = <<>>
  /\ frames = <<>>
  /\ loadI = 0
  /\ loadPc = "none"
  /\ loadError = ""

\* ------------------------------------------------------------ actions
\* A thread enters a constructor; getOrCreateStruct first sorts the fields
\* and builds the key.
Call(t, r) ==
  /\ pc[t] = "idle"
  /\ r.op \in ConstructorOps
  /\ \E sf \in (IF r.op = "Struct" THEN Sort(r.fields) ELSE {<<>>}) :
       sortedFields' = [sortedFields EXCEPT ![t] = sf]
  /\ pc' = [pc EXCEPT ![t] = "rlock"]
  /\ req' = [req EXCEPT ![t] = r]
  /\ ret' = [ret EXCEPT ![t] = NoRet]
  /\ UNCHANGED <<heap, caches, m_index, mutex, newType, returned, createdBy, inputs>>

\* The constructor returns handle h.
Return(t, h) ==
  /\ pc' = [pc EXCEPT ![t] = "idle"]
  /\ ret' = ret
  /\ returned' = returned \cup {[req |-> req[t], h |-> h]}
  /\ req' = [req EXCEPT ![t] = NoReq]
  /\ sortedFields' = [sortedFields EXCEPT ![t] = <<>>]
  /\ newType' = [newType EXCEPT ![t] = NULL]

\* std::shared_lock readLock(partition mutex)
AcquireRead(t) ==
  /\ pc[t] = "rlock"
  /\ CanLockShared(MutexOf(req[t]))
  /\ mutex' = LockShared(MutexOf(req[t]), t)
  /\ pc' = [pc EXCEPT ![t] = "rfind"]
  /\ UNCHANGED <<heap, caches, m_index, req, sortedFields, newType, ret,
                 returned, createdBy, inputs>>

\* The first block: find under the shared lock; return the node on a hit.
ReadFind(t) ==
  /\ pc[t] = "rfind"
  /\ mutex' = UnlockShared(MutexOf(req[t]), t)
  /\ LET it == FindShared(req[t], sortedFields[t])
     IN IF it # NULL
        THEN Return(t, it)
        ELSE /\ pc' = [pc EXCEPT ![t] = "wlock"]
             /\ UNCHANGED <<req, sortedFields, newType, ret, returned, createdBy, inputs>>
  /\ UNCHANGED <<heap, caches, m_index, createdBy, inputs>>

\* std::unique_lock writeLock(partition mutex)
AcquireWrite(t) ==
  /\ pc[t] = "wlock"
  /\ CanLockUnique(MutexOf(req[t]))
  /\ mutex' = LockUnique(MutexOf(req[t]), t)
  /\ pc' = [pc EXCEPT ![t] = "wfind"]
  /\ UNCHANGED <<heap, caches, m_index, req, sortedFields, newType, ret,
                 returned, createdBy, inputs>>

\* The second block: find again under the exclusive lock; return the node on
\* a hit, else build the node and store it in the slot or partition.
WriteFind(t) ==
  /\ pc[t] = "wfind"
  /\ mutex' = UnlockUnique(MutexOf(req[t]), t)
  /\ LET it == FindUnique(req[t], sortedFields[t])
     IN IF it # NULL
        THEN /\ Return(t, it)
             /\ UNCHANGED <<heap, caches, createdBy>>
        ELSE /\ \E node \in Construct(req[t], sortedFields[t]) :
                  heap' = Append(heap, node)
             /\ Insert(req[t], sortedFields[t], Len(heap) + 1)
             /\ createdBy' = Append(createdBy, req[t])
             /\ newType' = [newType EXCEPT ![t] = Len(heap) + 1]
             /\ pc' = [pc EXCEPT ![t] = "ilock"]
             /\ UNCHANGED <<req, sortedFields, ret, returned, inputs>>
  /\ UNCHANGED <<m_index, inputs>>

\* index() without its lock.
IndexLockNoMutex(t) ==
  /\ pc[t] = "ilock"
  /\ mutex' = LockUnique("m_mutexIndex", t)
  /\ pc' = [pc EXCEPT ![t] = "iset"]
  /\ UNCHANGED <<heap, caches, m_index, req, sortedFields, newType, ret,
                 returned, createdBy, inputs>>

\* index(): std::unique_lock writeLock(m_mutexIndex)
IndexLock(t) ==
  /\ pc[t] = "ilock"
  /\ CanLockUnique("m_mutexIndex")
  /\ mutex' = LockUnique("m_mutexIndex", t)
  /\ pc' = [pc EXCEPT ![t] = "iset"]
  /\ UNCHANGED <<heap, caches, m_index, req, sortedFields, newType, ret,
                 returned, createdBy, inputs>>

\* index() that gives every node the index of the first entry.
IndexSetZero(t) ==
  /\ pc[t] = "iset"
  /\ heap' = [heap EXCEPT ![newType[t]].m_index = 0]
  /\ pc' = [pc EXCEPT ![t] = "ipush"]
  /\ UNCHANGED <<caches, m_index, mutex, req, sortedFields, newType, ret,
                 returned, createdBy, inputs>>

\* index() that takes the size the table has after the push_back.
IndexSetAfter(t) ==
  /\ pc[t] = "iset"
  /\ heap' = [heap EXCEPT ![newType[t]].m_index = Len(m_index) + 1]
  /\ pc' = [pc EXCEPT ![t] = "ipush"]
  /\ UNCHANGED <<caches, m_index, mutex, req, sortedFields, newType, ret,
                 returned, createdBy, inputs>>

\* index(): type->m_index = m_index.size()
IndexSet(t) ==
  /\ pc[t] = "iset"
  /\ heap' = [heap EXCEPT ![newType[t]].m_index = Len(m_index)]
  /\ pc' = [pc EXCEPT ![t] = "ipush"]
  /\ UNCHANGED <<caches, m_index, mutex, req, sortedFields, newType, ret,
                 returned, createdBy, inputs>>

\* index() without the push_back.
IndexPushSkip(t) ==
  /\ pc[t] = "ipush"
  /\ m_index' = m_index
  /\ mutex' = UnlockUnique("m_mutexIndex", t)
  /\ pc' = [pc EXCEPT ![t] = "return"]
  /\ UNCHANGED <<heap, caches, req, sortedFields, newType, ret, returned,
                 createdBy, inputs>>

\* index() that puts the node at the front of the table.
IndexPushFront(t) ==
  /\ pc[t] = "ipush"
  /\ m_index' = <<newType[t]>> \o m_index
  /\ mutex' = UnlockUnique("m_mutexIndex", t)
  /\ pc' = [pc EXCEPT ![t] = "return"]
  /\ UNCHANGED <<heap, caches, req, sortedFields, newType, ret, returned,
                 createdBy, inputs>>

\* index(): m_index.push_back(type), and the end of its writeLock scope.
IndexPush(t) ==
  /\ pc[t] = "ipush"
  /\ m_index' = Append(m_index, newType[t])
  /\ mutex' = UnlockUnique("m_mutexIndex", t)
  /\ pc' = [pc EXCEPT ![t] = "return"]
  /\ UNCHANGED <<heap, caches, req, sortedFields, newType, ret, returned,
                 createdBy, inputs>>

\* return newType, after index() has returned: the caller gets the handle.
ReturnNew(t) ==
  /\ pc[t] = "return"
  /\ Return(t, newType[t])
  /\ UNCHANGED <<heap, caches, m_index, mutex, createdBy, inputs>>

\* A thread enters size() or at(index).
TableCall(t, r) ==
  /\ pc[t] = "idle"
  /\ r.op \in {"size", "at"}
  /\ pc' = [pc EXCEPT ![t] = "slock"]
  /\ req' = [req EXCEPT ![t] = r]
  /\ ret' = [ret EXCEPT ![t] = NoRet]
  /\ UNCHANGED <<heap, caches, m_index, mutex, sortedFields, newType,
                 returned, createdBy, inputs>>

\* size() / at(): std::shared_lock readLock(m_mutexIndex)
TableLock(t) ==
  /\ pc[t] = "slock"
  /\ CanLockShared("m_mutexIndex")
  /\ mutex' = LockShared("m_mutexIndex", t)
  /\ pc' = [pc EXCEPT ![t] = "sread"]
  /\ UNCHANGED <<heap, caches, m_index, req, sortedFields, newType, ret,
                 returned, createdBy, inputs>>

\* size(): return m_index.size()
Size(t) ==
  /\ pc[t] = "sread"
  /\ req[t].op = "size"
  /\ mutex' = UnlockShared("m_mutexIndex", t)
  /\ ret' = [ret EXCEPT ![t] = [kind |-> "size", val |-> Len(m_index)]]
  /\ pc' = [pc EXCEPT ![t] = "idle"]
  /\ req' = [req EXCEPT ![t] = NoReq]
  /\ UNCHANGED <<heap, caches, m_index, sortedFields, newType, returned, createdBy, inputs>>

\* at(index): return m_index[index].  std::vector::operator[] past the end
\* is undefined: the call returns any pointer value, or the process dies.
At(t) ==
  /\ pc[t] = "sread"
  /\ req[t].op = "at"
  /\ mutex' = UnlockShared("m_mutexIndex", t)
  /\ IF req[t].index < Len(m_index)
     THEN /\ ret' = [ret EXCEPT ![t] =
                       [kind |-> "handle", val |-> m_index[req[t].index + 1]]]
          /\ pc' = [pc EXCEPT ![t] = "idle"]
     ELSE \/ /\ \E garbage \in 0..Len(heap) :
                  ret' = [ret EXCEPT ![t] =
                            [kind |-> "handle", val |-> garbage]]
             /\ pc' = [pc EXCEPT ![t] = "idle"]
          \/ /\ ret' = ret
             /\ pc' = [pc EXCEPT ![t] = "abort"]
  /\ req' = [req EXCEPT ![t] = NoReq]
  /\ UNCHANGED <<heap, caches, m_index, sortedFields, newType, returned, createdBy, inputs>>

\* The steps of a call in progress.
CallStep(t) ==
  \/ AcquireRead(t)
  \/ ReadFind(t)
  \/ AcquireWrite(t)
  \/ WriteFind(t)
  \/ IndexLock(t)
  \/ IndexSet(t)
  \/ IndexPush(t)
  \/ ReturnNew(t)
  \/ TableLock(t)
  \/ Size(t)
  \/ At(t)

\* A step of a call that a client thread makes.
Step(t) == CallStep(t) /\ UNCHANGED xml

\* The process runs until a thread kills it.
Running == \A t \in Threads : pc[t] # "abort"

\* --------------------------------------------------------------- hash
\* The labels of hash_combine, as character codes: "INTEGER", "BOOLEAN",
\* "FLOAT", "REAL", "STRING", "POW".
Label(kind) ==
  CASE kind = "INTEGER" -> <<73, 78, 84, 69, 71, 69, 82>>
    [] kind = "BOOLEAN" -> <<66, 79, 79, 76, 69, 65, 78>>
    [] kind = "FLOAT" -> <<70, 76, 79, 65, 84>>
    [] kind = "REAL" -> <<82, 69, 65, 76>>
    [] kind = "STRING" -> <<83, 84, 82, 73, 78, 71>>
    [] kind = "PowerType" -> <<80, 79, 87>>

\* size_t arithmetic is modulo 2^HashBits.
SizeMod == 2 ^ HashBits

\* a ^ b on n bits.
RECURSIVE Xor(_, _, _)
Xor(a, b, n) ==
  IF n = 0 THEN 0
  ELSE ((a + b) % 2) + 2 * Xor(a \div 2, b \div 2, n - 1)

\* std::hash<std::string>, which the library defines: a multiplicative
\* string hash, with the multiplier an input of the run.
RECURSIVE StrHashFrom(_, _, _)
StrHashFrom(str, acc, mult) ==
  IF str = <<>> THEN acc
  ELSE StrHashFrom(Tail(str), (acc * mult + Head(str)) % SizeMod, mult)
StrHash(str) == StrHashFrom(str, 0, inputs.hashMult)

\* hashUtil::hash_combine_string:
\* seed ^ (hash(str) + 0x9e3779b9 + (seed << 6) + (seed >> 2))
hash_combine_string(str, seed) ==
  Xor(seed,
      (StrHash(str) + (GoldenRatioLow % SizeMod) + ((seed * 64) % SizeMod)
       + (seed \div 4)) % SizeMod,
      HashBits)

\* BType::hash_combine and its overrides, for the node of handle h.
RECURSIVE hash_combine(_, _)
RECURSIVE StructHash(_, _)
StructHash(fields, res) ==
  IF fields = <<>> THEN res
  ELSE StructHash(Tail(fields),
                  hash_combine_string(Head(fields).first,
                                      hash_combine(Head(fields).second, res)))
hash_combine(h, seed) ==
  LET n == heap[h]
  IN CASE n.m_kind \in LeafKinds -> hash_combine_string(Label(n.m_kind), seed)
       [] n.m_kind = "ProductType" ->
            hash_combine(n.lhs, hash_combine(n.rhs, seed))
       [] n.m_kind = "PowerType" ->
            hash_combine_string(Label("PowerType"),
                                hash_combine(n.m_content, seed))
       [] n.m_kind \in {"AbstractSet", "EnumeratedSet"} ->
            hash_combine_string(n.m_name, seed)
       [] n.m_kind = "Struct" -> StructHash(n.m_fields, seed)

\* A thread calls hash() on a node it holds.
HashCall(t, h) ==
  /\ pc[t] = "idle"
  /\ pc' = [pc EXCEPT ![t] = "hvalid"]
  /\ req' = [req EXCEPT ![t] = [op |-> "hash", node |-> h]]
  /\ ret' = [ret EXCEPT ![t] = NoRet]
  /\ UNCHANGED <<heap, caches, m_index, mutex, sortedFields, newType,
                 returned, createdBy, inputs>>

\* hash(): if (!m_hash_valid)
HashValid(t) ==
  /\ pc[t] = "hvalid"
  /\ pc' = [pc EXCEPT ![t] =
              IF heap[req[t].node].m_hash_valid THEN "hread" ELSE "hcompute"]
  /\ UNCHANGED <<heap, caches, m_index, mutex, req, sortedFields, newType,
                 ret, returned, createdBy, inputs>>

\* hash(): m_hash = hash_combine(0); m_hash_valid = true;  Both members are
\* plain and nothing orders the two stores for another thread, which can
\* see either of them first.
HashStoreFirst(t) ==
  /\ pc[t] = "hcompute"
  /\ LET n == req[t].node
     IN \/ /\ heap' = [heap EXCEPT ![n].m_hash = hash_combine(n, 0)]
           /\ pc' = [pc EXCEPT ![t] = "hstorevalid"]
        \/ /\ heap' = [heap EXCEPT ![n].m_hash_valid = TRUE]
           /\ pc' = [pc EXCEPT ![t] = "hstorehash"]
  /\ UNCHANGED <<caches, m_index, mutex, req, sortedFields, newType, ret,
                 returned, createdBy, inputs>>

\* The other of the two stores is seen.
HashStoreSecond(t) ==
  /\ pc[t] \in {"hstorevalid", "hstorehash"}
  /\ LET n == req[t].node
     IN heap' = IF pc[t] = "hstorevalid"
                THEN [heap EXCEPT ![n].m_hash_valid = TRUE]
                ELSE [heap EXCEPT ![n].m_hash = hash_combine(n, 0)]
  /\ pc' = [pc EXCEPT ![t] = "hread"]
  /\ UNCHANGED <<caches, m_index, mutex, req, sortedFields, newType, ret,
                 returned, createdBy, inputs>>

\* hash(): return m_hash
HashRead(t) ==
  /\ pc[t] = "hread"
  /\ ret' = [ret EXCEPT ![t] = [kind |-> "hash", node |-> req[t].node,
                                val |-> heap[req[t].node].m_hash]]
  /\ pc' = [pc EXCEPT ![t] = "idle"]
  /\ req' = [req EXCEPT ![t] = NoReq]
  /\ UNCHANGED <<heap, caches, m_index, mutex, sortedFields, newType,
                 returned, createdBy, inputs>>

\* The steps of a hash() call in progress.
HashStep(t) ==
  /\ \/ HashValid(t)
     \/ HashStoreFirst(t)
     \/ HashStoreSecond(t)
     \/ HashRead(t)
  /\ UNCHANGED xml

\* ------------------------------------------------- compare, visit, format
\* A compare that never answers 1.
compareNoGreater(v1, v2) ==
  IF hash_combine(v1, 0) < hash_combine(v2, 0) THEN -1 ELSE 0

\* BType::compare
compare(v1, v2) ==
  LET hash1 == hash_combine(v1, 0)
      hash2 == hash_combine(v2, 0)
  IN IF hash1 < hash2 THEN -1
     ELSE IF hash1 > hash2 THEN 1
     ELSE 0

\* operator==, !=, <, >, <=, >=
OpEq(a, b) == compare(a, b) = 0
OpNe(a, b) == compare(a, b) # 0
OpLt(a, b) == compare(a, b) < 0
OpGt(a, b) == compare(a, b) > 0
OpLe(a, b) == compare(a, b) <= 0
OpGe(a, b) == compare(a, b) >= 0

\* An accept that takes an enumerated set for an abstract set.
acceptByName(h) ==
  CASE heap[h].m_kind = "INTEGER" -> "visitINTEGER"
    [] heap[h].m_kind = "BOOLEAN" -> "visitBOOLEAN"
    [] heap[h].m_kind = "FLOAT" -> "visitFLOAT"
    [] heap[h].m_kind = "REAL" -> "visitREAL"
    [] heap[h].m_kind = "STRING" -> "visitSTRING"
    [] heap[h].m_kind = "ProductType" -> "visitProductType"
    [] heap[h].m_kind = "PowerType" -> "visitPowerType"
    [] heap[h].m_kind = "AbstractSet" -> "visitAbstractSet"
    [] heap[h].m_kind = "EnumeratedSet" -> "visitAbstractSet"
    [] heap[h].m_kind = "Struct" -> "visitStructType"

\* BType::accept and its overrides: the visit method that is called.
accept(h) ==
  CASE heap[h].m_kind = "INTEGER" -> "visitINTEGER"
    [] heap[h].m_kind = "BOOLEAN" -> "visitBOOLEAN"
    [] heap[h].m_kind = "FLOAT" -> "visitFLOAT"
    [] heap[h].m_kind = "REAL" -> "visitREAL"
    [] heap[h].m_kind = "STRING" -> "visitSTRING"
    [] heap[h].m_kind = "ProductType" -> "visitProductType"
    [] heap[h].m_kind = "PowerType" -> "visitPowerType"
    [] heap[h].m_kind = "AbstractSet" -> "visitAbstractSet"
    [] heap[h].m_kind = "EnumeratedSet" -> "visitEnumeratedSet"
    [] heap[h].m_kind = "Struct" -> "visitStructType"

\* BType::toProductType .. toStructType: nullptr for another kind.
toProductType(h) == IF heap[h].m_kind # "ProductType" THEN NULL ELSE h
toPowerType(h) == IF heap[h].m_kind # "PowerType" THEN NULL ELSE h
toAbstractSetType(h) == IF heap[h].m_kind # "AbstractSet" THEN NULL ELSE h
toEnumeratedSetType(h) == IF heap[h].m_kind # "EnumeratedSet" THEN NULL ELSE h
toStructType(h) == IF heap[h].m_kind # "Struct" THEN NULL ELSE h
Conversions ==
  {"toProductType", "toPowerType", "toAbstractSetType", "toEnumeratedSetType",
   "toStructType"}
Convert(to, h) ==
  CASE to = "toProductType" -> toProductType(h)
    [] to = "toPowerType" -> toPowerType(h)
    [] to = "toAbstractSetType" -> toAbstractSetType(h)
    [] to = "toEnumeratedSetType" -> toEnumeratedSetType(h)
    [] to = "toStructType" -> toStructType(h)

\* The text of the format strings, as UTF-8 codes: "(", " × ", ")", "ℙ(",
\* "struct({", "})", ": ", ", ".
TextOpen == <<40>>
TextTimes == <<32, 195, 151, 32>>
TextClose == <<41>>
TextPow == <<226, 132, 153, 40>>
TextStruct == <<115, 116, 114, 117, 99, 116, 40, 123>>
TextEndStruct == <<125, 41>>
TextColon == <<58, 32>>
TextComma == <<44, 32>>

\* fmt::formatter<BType>::format through FormatterVisitor, and the
\* formatters of the five classes.
RECURSIVE Format(_)
RECURSIVE FormatFields(_, _)
FormatFields(m_fields, first) ==
  IF m_fields = <<>> THEN <<>>
  ELSE (IF first THEN <<>> ELSE TextComma)
       \o Head(m_fields).first \o TextColon \o Format(Head(m_fields).second)
       \o FormatFields(Tail(m_fields), FALSE)
Format(h) ==
  LET type == heap[h]
      visit == accept(h)
  IN CASE visit = "visitINTEGER" -> Label("INTEGER")
       [] visit = "visitBOOLEAN" -> Label("BOOLEAN")
       [] visit = "visitFLOAT" -> Label("FLOAT")
       [] visit = "visitREAL" -> Label("REAL")
       [] visit = "visitSTRING" -> Label("STRING")
       [] visit = "visitProductType" ->
            TextOpen \o Format(type.lhs) \o TextTimes \o Format(type.rhs)
            \o TextClose
       [] visit = "visitPowerType" ->
            TextPow \o Format(type.m_content) \o TextClose
       [] visit = "visitAbstractSet" -> type.m_name
       [] visit = "visitEnumeratedSet" -> type.m_name
       [] visit = "visitStructType" ->
            TextStruct \o FormatFields(type.m_fields, TRUE) \o TextEndStruct

\* A client compares, visits, converts and formats nodes it holds.
UseCompare(t) ==
  /\ pc[t] = "idle"
  /\ \E a \in Known, b \in Known :
        ret' = [ret EXCEPT ![t] = [kind |-> "compare", v1 |-> a, v2 |-> b,
                                   val |-> compare(a, b)]]
  /\ UNCHANGED <<heap, caches, m_index, mutex, pc, req, sortedFields, newType,
                 returned, createdBy, inputs, xml>>

UseAccept(t) ==
  /\ pc[t] = "idle"
  /\ \E h \in Known :
        ret' = [ret EXCEPT ![t] = [kind |-> "accept", node |-> h,
                                   val |-> accept(h)]]
  /\ UNCHANGED <<heap, caches, m_index, mutex, pc, req, sortedFields, newType,
                 returned, createdBy, inputs, xml>>

UseConvert(t) ==
  /\ pc[t] = "idle"
  /\ \E h \in Known, to \in Conversions :
        ret' = [ret EXCEPT ![t] = [kind |-> to, node |-> h,
                                   val |-> Convert(to, h)]]
  /\ UNCHANGED <<heap, caches, m_index, mutex, pc, req, sortedFields, newType,
                 returned, createdBy, inputs, xml>>

UseFormat(t) ==
  /\ pc[t] = "idle"
  /\ \E h \in Known :
        ret' = [ret EXCEPT ![t] = [kind |-> "format", node |-> h,
                                   val |-> Format(h)]]
  /\ UNCHANGED <<heap, caches, m_index, mutex, pc, req, sortedFields, newType,
                 returned, createdBy, inputs, xml>>

\* ------------------------------------------------------------- writer
\* An XML attribute is absent, or present with a value.
NoAttr == <<>>
Att(v) == <<v>>

\* An XML element of a type definition: its tag, its attributes, and the name
\* attributes of its EnumeratedValue children and the name and type
\* attributes of its Field children, in document order.
Element(tag) ==
  [tag |-> tag, arg |-> NoAttr, arg1 |-> NoAttr, arg2 |-> NoAttr,
   name |-> NoAttr, values |-> <<>>, fields |-> <<>>]

\* A RichType element: its id attribute and its child elements.
RichType(id, def) == [id |-> id, def |-> def]

\* A writer that refers to a child by the place of its creation.
WriteTypeByCreation(type) ==
  CASE type.m_kind = "BOOLEAN" -> Element("BOOL")
    [] type.m_kind = "INTEGER" -> Element("INTEGER")
    [] type.m_kind = "REAL" -> Element("REAL")
    [] type.m_kind = "FLOAT" -> Element("FLOAT")
    [] type.m_kind = "STRING" -> Element("STRING")
    [] type.m_kind = "PowerType" ->
         [Element("PowerSet") EXCEPT !.arg = Att(type.m_content - 1)]
    [] type.m_kind = "ProductType" ->
         [Element("CartesianProduct") EXCEPT
            !.arg1 = Att(type.lhs - 1), !.arg2 = Att(type.rhs - 1)]
    [] type.m_kind = "AbstractSet" ->
         [Element("AbstractSet") EXCEPT !.name = Att(type.m_name)]
    [] type.m_kind = "EnumeratedSet" ->
         [Element("EnumeratedSet") EXCEPT
            !.name = Att(type.m_name),
            !.values = [j \in 1..Len(type.m_values) |-> Att(type.m_values[j])]]
    [] type.m_kind = "Struct" ->
         [Element("StructType") EXCEPT
            !.fields = [j \in 1..Len(type.m_fields) |->
                          [name |-> Att(type.m_fields[j].first),
                           type |-> Att(type.m_fields[j].second - 1)]]]

\* The writer's switch on type->getKind(): the element it emits for a node,
\* with index() of the node's children as references.
WriteType(type) ==
  CASE type.m_kind = "BOOLEAN" -> Element("BOOL")
    [] type.m_kind = "INTEGER" -> Element("INTEGER")
    [] type.m_kind = "REAL" -> Element("REAL")
    [] type.m_kind = "FLOAT" -> Element("FLOAT")
    [] type.m_kind = "STRING" -> Element("STRING")
    [] type.m_kind = "PowerType" ->
         [Element("PowerSet") EXCEPT !.arg = Att(heap[type.m_content].m_index)]
    [] type.m_kind = "ProductType" ->
         [Element("CartesianProduct") EXCEPT
            !.arg1 = Att(heap[type.lhs].m_index),
            !.arg2 = Att(heap[type.rhs].m_index)]
    [] type.m_kind = "AbstractSet" ->
         [Element("AbstractSet") EXCEPT !.name = Att(type.m_name)]
    [] type.m_kind = "EnumeratedSet" ->
         [Element("EnumeratedSet") EXCEPT
            !.name = Att(type.m_name),
            !.values = [j \in 1..Len(type.m_values) |-> Att(type.m_values[j])]]
    [] type.m_kind = "Struct" ->
         [Element("StructType") EXCEPT
            !.fields = [j \in 1..Len(type.m_fields) |->
                          [name |-> Att(type.m_fields[j].first),
                           type |-> Att(heap[type.m_fields[j].second].m_index)]]]

\* The records the writer emits: one per i below size(), for at(i).
WrittenRecords ==
  [i \in 1..Len(m_index) |-> RichType(Att(i - 1), <<WriteType(heap[m_index[i]])>>)]

\* writeXMLRichTypesInfo on a store at rest (no constructor call in
\* progress, so that its calls of size(), at() and index() see one state).
WriteXMLRichTypesInfo ==
  /\ loadPc = "none"
  /\ \A t \in Threads : pc[t] = "idle"
  /\ document' = WrittenRecords
  /\ source' = [heap |-> heap, m_index |-> m_index]
  /\ loadPc' = "written"
  /\ UNCHANGED <<heap, caches, m_index, mutex, pc, req, sortedFields, newType,
                 ret, returned, createdBy, inputs, richTypeElements, types,
                 frames, loadI, loadError>>

\* writeXMLRichTypesInfo while other threads call constructors.  nbTypes is
\* the size() it has read at its start; size() and at(i) read the table
\* under the shared lock of m_mutexIndex, index() of a child reads the plain
\* member of the node.
nbTypes == Len(source.m_index)

\* std::size_t nbTypes = BTypeFactory::size();
WriteBegin ==
  /\ loadPc = "none"
  /\ mutex["m_mutexIndex"].writer = NULL
  /\ source' = [heap |-> heap, m_index |-> m_index]
  /\ document' = <<>>
  /\ loadI' = 0
  /\ loadPc' = "writing"
  /\ UNCHANGED <<heap, caches, m_index, mutex, pc, req, sortedFields, newType,
                 ret, returned, createdBy, inputs, richTypeElements, types,
                 frames, loadError>>

\* One turn of the loop: type = at(i), and the record of type is written.
WriteRecord ==
  /\ loadPc = "writing"
  /\ loadI < nbTypes
  /\ mutex["m_mutexIndex"].writer = NULL
  /\ document' = Append(document,
                        RichType(Att(loadI),
                                 <<WriteType(heap[m_index[loadI + 1]])>>))
  /\ loadI' = loadI + 1
  /\ UNCHANGED <<heap, caches, m_index, mutex, pc, req, sortedFields, newType,
                 ret, returned, createdBy, inputs, source, richTypeElements,
                 types, frames, loadPc, loadError>>

\* The loop ends at i = nbTypes.
WriteEnd ==
  /\ loadPc = "writing"
  /\ loadI = nbTypes
  /\ loadPc' = "written"
  /\ UNCHANGED <<heap, caches, m_index, mutex, pc, req, sortedFields, newType,
                 ret, returned, createdBy, inputs, document, source,
                 richTypeElements, types, frames, loadI, loadError>>

\* Another process starts, with an empty store, to read the document.
NewProcess ==
  /\ loadPc = "written"
  /\ heap' = <<>>
  /\ m_basicTypes' = [k \in LeafKinds |-> NULL]
  /\ m_productTypes' = <<>>
  /\ m_powerTypes' = <<>>
  /\ m_abstractSets' = <<>>
  /\ m_enumeratedSets' = <<>>
  /\ m_structTypes' = <<>>
  /\ m_index' = <<>>
  /\ returned' = {}
  /\ createdBy' = <<>>
  /\ loadPc' = "first"
  /\ ret' = [t \in Threads |-> NoRet]
  /\ UNCHANGED <<mutex, pc, req, sortedFields, newType, inputs, document,
                 source, richTypeElements, types, frames, loadI, loadError>>

\* ------------------------------------------------------------- reader
\* The store, which the reader's own steps leave alone.
store == <<heap, caches, m_index, mutex, returned, createdBy>>

\* The first pass's checks of an id attribute, for the element that comes
\* n-th (from 0): QueryIntAttribute fails or id < 0; id is not n.
InvalidId(id) == id = NoAttr \/ id[1] < 0
NotContiguous(id, n) == id[1] # n

\* A first pass that takes the elements as they come.
FirstPassAnyId ==
  /\ loadPc = "first"
  /\ richTypeElements' = document
  /\ types' = [k \in 1..Len(document) |-> NULL]
  /\ loadI' = 0
  /\ loadPc' = "drive"
  /\ UNCHANGED <<store, pc, req, sortedFields, newType, ret, inputs, document,
                 source, frames, loadError>>

\* buildFromXML, first pass: every RichType element in document order gets a
\* place in richTypeElements and a null in types; an element whose id is
\* missing, negative or not its place ends the load with an Exception.
FirstPass ==
  /\ loadPc = "first"
  /\ LET bad == {k \in 1..Len(document) :
                   \/ InvalidId(document[k].id)
                   \/ NotContiguous(document[k].id, k - 1)}
         n == IF bad = {} THEN Len(document)
              ELSE (CHOOSE k \in bad : \A j \in bad : k <= j) - 1
     IN /\ richTypeElements' = SubSeq(document, 1, n)
        /\ types' = [k \in 1..n |-> NULL]
        /\ IF bad = {}
           THEN loadPc' = "drive" /\ loadError' = loadError
           ELSE /\ loadPc' = "failed"
                /\ loadError' = IF InvalidId(document[n + 1].id)
                                THEN "Invalid or missing id attribute"
                                ELSE "RichType indexing is not contiguous"
  /\ loadI' = 0
  /\ UNCHANGED <<store, pc, req, sortedFields, newType, ret, inputs, document,
                 source, frames>>

\* An invocation of typeOfXmlElement(pos): the number k of recursive calls
\* it has made, its local fields, and the constructor call it makes.
Frame(pos) == [pos |-> pos, k |-> 0, fields |-> <<>>, req |-> NoReq]

\* The invocation that is running, and the positions being resolved.
Top == frames[Len(frames)]
Resolving == {frames[j].pos : j \in 1..Len(frames)}

\* What an invocation does next.
Outcome(do) == [do |-> do, msg |-> "", pos |-> 0, req |-> NoReq, fields |-> <<>>]
DoThrow(msg) == [Outcome("throw") EXCEPT !.msg = msg]
DoRecurse(pos, fields) ==
  [Outcome("recurse") EXCEPT !.pos = pos, !.fields = fields]
DoConstruct(r, fields) ==
  [Outcome("construct") EXCEPT !.req = r, !.fields = fields]

\* The check of a reference attribute: QueryIntAttribute fails, the value is
\* negative, or it is not below types.size().
InvalidRef(a) == a = NoAttr \/ a[1] < 0 \/ a[1] >= Len(types)

\* A check that lets every reference value through.
InvalidRefNoRange(a) == a = NoAttr

\* The check of the reference attributes of the reader.
BadRef(a) == InvalidRef(a)

\* typeOfXmlElement for a StructType element: the Field loop, which checks
\* a field, resolves its type and adds it to fields, then calls Struct.
StructOutcome(f, typeDefElem) ==
  LET fields ==
        IF f.k = 0 THEN <<>>
        ELSE Append(f.fields,
                    [first |-> typeDefElem.fields[f.k].name[1],
                     second |-> types[typeDefElem.fields[f.k].type[1] + 1]])
  IN IF f.k < Len(typeDefElem.fields)
     THEN LET fieldElem == typeDefElem.fields[f.k + 1]
          IN IF fieldElem.name = NoAttr \/ BadRef(fieldElem.type)
             THEN DoThrow("Invalid Struct field definition")
             ELSE DoRecurse(fieldElem.type[1], fields)
     ELSE DoConstruct([op |-> "Struct", fields |-> fields], fields)

\* A typeOfXmlElement that does not look whether the position is resolved.
TypeOfXmlElementNoMemo(f) ==
  IF f.pos < 0 \/ f.pos >= Len(types) THEN Outcome("out_of_range")
  ELSE IF richTypeElements[f.pos + 1].def = <<>>
  THEN DoThrow("Empty RichType element")
  ELSE
    LET typeDefElem == Head(richTypeElements[f.pos + 1].def)
        elemName == typeDefElem.tag
    IN CASE elemName = "BOOL" -> DoConstruct([op |-> "Boolean"], <<>>)
         [] elemName = "INTEGER" -> DoConstruct([op |-> "Integer"], <<>>)
         [] elemName = "REAL" -> DoConstruct([op |-> "Real"], <<>>)
         [] elemName = "FLOAT" -> DoConstruct([op |-> "Float"], <<>>)
         [] elemName = "STRING" -> DoConstruct([op |-> "String"], <<>>)
         [] elemName = "PowerSet" ->
              IF BadRef(typeDefElem.arg)
              THEN DoThrow("Invalid PowerSet arg reference")
              ELSE IF f.k = 0 THEN DoRecurse(typeDefElem.arg[1], <<>>)
              ELSE DoConstruct([op |-> "PowerSet",
                                content |-> types[typeDefElem.arg[1] + 1]], <<>>)
         [] elemName = "CartesianProduct" ->
              IF BadRef(typeDefElem.arg1) \/ BadRef(typeDefElem.arg2)
              THEN DoThrow("Invalid CartesianProduct arg references")
              ELSE IF f.k = 0 THEN DoRecurse(typeDefElem.arg1[1], <<>>)
              ELSE IF f.k = 1 THEN DoRecurse(typeDefElem.arg2[1], <<>>)
              ELSE DoConstruct([op |-> "Product",
                                lhs |-> types[typeDefElem.arg1[1] + 1],
                                rhs |-> types[typeDefElem.arg2[1] + 1]], <<>>)
         [] elemName = "AbstractSet" ->
              IF typeDefElem.name = NoAttr
              THEN DoThrow("Missing AbstractSet name attribute")
              ELSE DoConstruct([op |-> "AbstractSet",
                                name |-> typeDefElem.name[1]], <<>>)
         [] elemName = "EnumeratedSet" ->
              IF typeDefElem.name = NoAttr
              THEN DoThrow("Missing EnumeratedSet name attribute")
              ELSE IF \E j \in 1..Len(typeDefElem.values) :
                        typeDefElem.values[j] = NoAttr
              THEN DoThrow("Missing EnumeratedValue name attribute")
              ELSE DoConstruct(
                     [op |-> "EnumeratedSet", name |-> typeDefElem.name[1],
                      values |-> [j \in 1..Len(typeDefElem.values) |->
                                    typeDefElem.values[j][1]]], <<>>)
         [] elemName = "StructType" -> StructOutcome(f, typeDefElem)
         [] OTHER -> DoThrow("Unknown type element")

\* typeOfXmlElement, from where invocation f stands to its next recursive
\* call, constructor call, return or throw (types.at(pos) throws
\* std::out_of_range for a pos that is no position of types).
TypeOfXmlElement(f) ==
  IF f.pos < 0 \/ f.pos >= Len(types) THEN Outcome("out_of_range")
  ELSE IF f.k = 0 /\ types[f.pos + 1] # NULL THEN Outcome("return")
  ELSE IF richTypeElements[f.pos + 1].def = <<>>
  THEN DoThrow("Empty RichType element")
  ELSE
    LET typeDefElem == Head(richTypeElements[f.pos + 1].def)
        elemName == typeDefElem.tag
    IN CASE elemName = "BOOL" -> DoConstruct([op |-> "Boolean"], <<>>)
         [] elemName = "INTEGER" -> DoConstruct([op |-> "Integer"], <<>>)
         [] elemName = "REAL" -> DoConstruct([op |-> "Real"], <<>>)
         [] elemName = "FLOAT" -> DoConstruct([op |-> "Float"], <<>>)
         [] elemName = "STRING" -> DoConstruct([op |-> "String"], <<>>)
         [] elemName = "PowerSet" ->
              IF BadRef(typeDefElem.arg)
              THEN DoThrow("Invalid PowerSet arg reference")
              ELSE IF f.k = 0 THEN DoRecurse(typeDefElem.arg[1], <<>>)
              ELSE DoConstruct([op |-> "PowerSet",
                                content |-> types[typeDefElem.arg[1] + 1]], <<>>)
         [] elemName = "CartesianProduct" ->
              IF BadRef(typeDefElem.arg1) \/ BadRef(typeDefElem.arg2)
              THEN DoThrow("Invalid CartesianProduct arg references")
              ELSE IF f.k = 0 THEN DoRecurse(typeDefElem.arg1[1], <<>>)
              ELSE IF f.k = 1 THEN DoRecurse(typeDefElem.arg2[1], <<>>)
              ELSE DoConstruct([op |-> "Product",
                                lhs |-> types[typeDefElem.arg1[1] + 1],
                                rhs |-> types[typeDefElem.arg2[1] + 1]], <<>>)
         [] elemName = "AbstractSet" ->
              IF typeDefElem.name = NoAttr
              THEN DoThrow("Missing AbstractSet name attribute")
              ELSE DoConstruct([op |-> "AbstractSet",
                                name |-> typeDefElem.name[1]], <<>>)
         [] elemName = "EnumeratedSet" ->
              IF typeDefElem.name = NoAttr
              THEN DoThrow("Missing EnumeratedSet name attribute")
              ELSE IF \E j \in 1..Len(typeDefElem.values) :
                        typeDefElem.values[j] = NoAttr
              THEN DoThrow("Missing EnumeratedValue name attribute")
              ELSE DoConstruct(
                     [op |-> "EnumeratedSet", name |-> typeDefElem.name[1],
                      values |-> [j \in 1..Len(typeDefElem.values) |->
                                    typeDefElem.values[j][1]]], <<>>)
         [] elemName = "StructType" -> StructOutcome(f, typeDefElem)
         [] OTHER -> DoThrow("Unknown type element")

\* buildFromXML, driving pass: typeOfXmlElement(i) for every i, then the
\* final pass.
Drive ==
  /\ loadPc = "drive"
  /\ IF loadI < Len(richTypeElements)
     THEN /\ frames' = <<Frame(loadI)>>
          /\ loadI' = loadI + 1
          /\ loadPc' = "resolve"
     ELSE /\ loadPc' = "verify"
          /\ UNCHANGED <<frames, loadI>>
  /\ UNCHANGED <<store, pc, req, sortedFields, newType, ret, inputs, document,
                 source, richTypeElements, types, loadError>>

\* A reader that throws when it is to resolve a position that it is already
\* resolving.
ResolveCycleGuard ==
  /\ loadPc = "resolve"
  /\ LET f == Top
         o == TypeOfXmlElement(f)
         caller == [f EXCEPT !.k = f.k + 1, !.fields = o.fields]
     IN CASE o.do = "return" ->
               /\ frames' = SubSeq(frames, 1, Len(frames) - 1)
               /\ loadPc' = IF Len(frames) = 1 THEN "drive" ELSE "resolve"
               /\ UNCHANGED <<loadError, pc, req, sortedFields, ret>>
          [] o.do = "throw" ->
               /\ loadPc' = "failed"
               /\ loadError' = o.msg
               /\ UNCHANGED <<frames, pc, req, sortedFields, ret>>
          [] o.do = "out_of_range" ->
               /\ loadPc' = "out_of_range"
               /\ UNCHANGED <<frames, loadError, pc, req, sortedFields, ret>>
          [] o.do = "recurse" ->
               /\ IF o.pos \in Resolving
                  THEN loadPc' = "failed" /\ frames' = frames
                  ELSE /\ loadPc' = "resolve"
                       /\ frames' = Append([frames EXCEPT ![Len(frames)] = caller],
                                           Frame(o.pos))
               /\ UNCHANGED <<loadError, pc, req, sortedFields, ret>>
          [] o.do = "construct" ->
               /\ Call(MainThread, o.req)
               /\ frames' = [frames EXCEPT ![Len(frames)] =
                               [f EXCEPT !.req = o.req, !.fields = o.fields]]
               /\ loadPc' = "call"
               /\ loadError' = loadError
  /\ UNCHANGED <<store, newType, inputs, document, source, richTypeElements,
                 types, loadI>>

\* A reader that, when it throws, takes out of the store what the load has
\* put into it.
ResolveRollBack ==
  /\ loadPc = "resolve"
  /\ LET f == Top
         o == TypeOfXmlElement(f)
         caller == [f EXCEPT !.k = f.k + 1, !.fields = o.fields]
     IN CASE o.do = "return" ->
               /\ frames' = SubSeq(frames, 1, Len(frames) - 1)
               /\ loadPc' = IF Len(frames) = 1 THEN "drive" ELSE "resolve"
               /\ UNCHANGED <<loadError, pc, req, sortedFields, ret>>
          [] o.do = "throw" ->
               /\ loadPc' = "failed"
               /\ loadError' = o.msg
               /\ UNCHANGED <<frames, pc, req, sortedFields, ret>>
          [] o.do = "out_of_range" ->
               /\ loadPc' = "out_of_range"
               /\ UNCHANGED <<frames, loadError, pc, req, sortedFields, ret>>
          [] o.do = "recurse" ->
               /\ IF o.pos \in Resolving
                  THEN loadPc' = "overflow" /\ frames' = frames
                  ELSE /\ loadPc' = "resolve"
                       /\ frames' = Append([frames EXCEPT ![Len(frames)] = caller],
                                           Frame(o.pos))
               /\ UNCHANGED <<loadError, pc, req, sortedFields, ret>>
          [] o.do = "construct" ->
               /\ Call(MainThread, o.req)
               /\ frames' = [frames EXCEPT ![Len(frames)] =
                               [f EXCEPT !.req = o.req, !.fields = o.fields]]
               /\ loadPc' = "call"
               /\ loadError' = loadError
  /\ IF TypeOfXmlElement(Top).do = "throw"
     THEN /\ heap' = <<>>
          /\ m_basicTypes' = [k \in LeafKinds |-> NULL]
          /\ m_productTypes' = <<>>
          /\ m_powerTypes' = <<>>
          /\ m_abstractSets' = <<>>
          /\ m_enumeratedSets' = <<>>
          /\ m_structTypes' = <<>>
          /\ m_index' = <<>>
     ELSE UNCHANGED <<heap, caches, m_index>>
  /\ UNCHANGED <<mutex, returned, createdBy, newType, inputs, document, source,
                 richTypeElements, types, loadI>>

\* The invocation that is running goes on to its next recursive call,
\* constructor call, return or throw.  An invocation for a position that is
\* already being resolved finds nothing changed for it and recurses in its
\* turn, without end: the stack overflows.
Resolve ==
  /\ loadPc = "resolve"
  /\ LET f == Top
         o == TypeOfXmlElement(f)
         caller == [f EXCEPT !.k = f.k + 1, !.fields = o.fields]
     IN CASE o.do = "return" ->
               /\ frames' = SubSeq(frames, 1, Len(frames) - 1)
               /\ loadPc' = IF Len(frames) = 1 THEN "drive" ELSE "resolve"
               /\ UNCHANGED <<loadError, pc, req, sortedFields, ret>>
          [] o.do = "throw" ->
               /\ loadPc' = "failed"
               /\ loadError' = o.msg
               /\ UNCHANGED <<frames, pc, req, sortedFields, ret>>
          [] o.do = "out_of_range" ->
               /\ loadPc' = "out_of_range"
               /\ UNCHANGED <<frames, loadError, pc, req, sortedFields, ret>>
          [] o.do = "recurse" ->
               /\ IF o.pos \in Resolving
                  THEN loadPc' = "overflow" /\ frames' = frames
                  ELSE /\ loadPc' = "resolve"
                       /\ frames' = Append([frames EXCEPT ![Len(frames)] = caller],
                                           Frame(o.pos))
               /\ UNCHANGED <<loadError, pc, req, sortedFields, ret>>
          [] o.do = "construct" ->
               /\ Call(MainThread, o.req)
               /\ frames' = [frames EXCEPT ![Len(frames)] =
                               [f EXCEPT !.req = o.req, !.fields = o.fields]]
               /\ loadPc' = "call"
               /\ loadError' = loadError
  /\ UNCHANGED <<store, newType, inputs, document, source, richTypeElements,
                 types, loadI>>

\* A reader that keeps a node at the place the driving pass has reached.
ConstructingAtDriveIndex ==
  /\ loadPc = "call"
  /\ CallStep(MainThread)
  /\ IF pc'[MainThread] = "idle"
     THEN /\ types' = [types EXCEPT ![loadI] =
                         (CHOOSE e \in returned' : e.req = Top.req).h]
          /\ frames' = SubSeq(frames, 1, Len(frames) - 1)
          /\ loadPc' = IF Len(frames) = 1 THEN "drive" ELSE "resolve"
     ELSE UNCHANGED <<types, frames, loadPc>>
  /\ UNCHANGED <<document, source, richTypeElements, loadI, loadError>>

\* A reader whose invocations return without keeping the node.
ConstructingNoCache ==
  /\ loadPc = "call"
  /\ CallStep(MainThread)
  /\ IF pc'[MainThread] = "idle"
     THEN /\ types' = types
          /\ frames' = SubSeq(frames, 1, Len(frames) - 1)
          /\ loadPc' = IF Len(frames) = 1 THEN "drive" ELSE "resolve"
     ELSE UNCHANGED <<types, frames, loadPc>>
  /\ UNCHANGED <<document, source, richTypeElements, loadI, loadError>>

\* The constructor call of the running invocation takes a step; when it
\* returns, types[pos] = type and the invocation returns.
Constructing ==
  /\ loadPc = "call"
  /\ CallStep(MainThread)
  /\ IF pc'[MainThread] = "idle"
     THEN /\ types' = [types EXCEPT ![Top.pos + 1] =
                         (CHOOSE e \in returned' : e.req = Top.req).h]
          /\ frames' = SubSeq(frames, 1, Len(frames) - 1)
          /\ loadPc' = IF Len(frames) = 1 THEN "drive" ELSE "resolve"
     ELSE UNCHANGED <<types, frames, loadPc>>
  /\ UNCHANGED <<document, source, richTypeElements, loadI, loadError>>

\* buildFromXML, final pass: a null in types ends the load with an Exception.
Verify ==
  /\ loadPc = "verify"
  /\ IF \E k \in 1..Len(types) : types[k] = NULL
     THEN loadPc' = "failed" /\ loadError' = "Missing type definition"
     ELSE loadPc' = "done" /\ loadError' = loadError
  /\ UNCHANGED <<store, pc, req, sortedFields, newType, ret, inputs, document,
                 source, richTypeElements, types, frames, loadI>>

\* The partition and key a constructor call looks up (every result of the
\* sort gives the same key string).
Key(r) ==
  CASE r.op \in LeafOps -> <<"m_basicTypes", LeafKind(r.op)>>
    [] r.op = "Product" -> <<"m_productTypes", <<r.lhs, r.rhs>> >>
    [] r.op = "PowerSet" -> <<"m_powerTypes", r.content>>
    [] r.op = "AbstractSet" -> <<"m_abstractSets", r.name>>
    [] r.op = "EnumeratedSet" -> <<"m_enumeratedSets", r.name>>
    [] r.op = "Struct" ->
         <<"m_structTypes", KeyString(CHOOSE sf \in Sort(r.fields) : TRUE)>>

\* The keys that the calls in progress may still create a node for.
Pending ==
  {Key(req[t]) : t \in {u \in Threads :
                          /\ pc[u] \in {"rlock", "rfind", "wlock", "wfind"}
                          /\ Find(req[u], sortedFields[u]) = NULL}}

\* Whether call r leaves the run within max nodes.
Room(r, max) ==
  \/ Find(r, CHOOSE sf \in (IF r.op = "Struct" THEN Sort(r.fields) ELSE {<<>>}) : TRUE) # NULL
  \/ Len(heap) + Cardinality(Pending \cup {Key(r)}) <= max

\* ----------------------------------------------------- specifications
Name_a == <<97>>
Name_b == <<98>>
Name_a_b == <<97, 59, 98>>

NoInputs ==
  [leaves |-> {}, ops |-> {}, names |-> {}, values |-> {}, fieldNames |-> {},
   fieldKinds |-> {}, table |-> FALSE, hashMult |-> 31]

\* The inputs of the concurrent runs: each run works on some partitions.
ConcScenarios ==
  {[NoInputs EXCEPT !.leaves = {"Integer"}, !.ops = {"PowerSet"}],
   [NoInputs EXCEPT !.leaves = {"Float"}, !.ops = {"Product"}],
   [NoInputs EXCEPT !.ops = {"AbstractSet", "EnumeratedSet"},
                    !.names = {Name_a},
                    !.values = {<<"v1">>, <<"v2", "v1">>}],
   [NoInputs EXCEPT !.ops = {"Struct"}, !.fieldNames = {<<>>, <<Name_a>>},
                    !.fieldKinds = {"Struct"}],
   [NoInputs EXCEPT !.leaves = {"Real", "Boolean"}, !.table = TRUE]}

Init == EmptyStore /\ NoDocument /\ inputs \in ConcScenarios

\* Any number of threads call the factory concurrently.
Next ==
  /\ Running
  /\ \E t \in Threads :
       \/ \E r \in ConstructorCalls(inputs, Known) :
            Room(r, MaxNodes) /\ Call(t, r)
       \/ \E r \in TableCalls : inputs.table /\ TableCall(t, r)
       \/ Step(t)
  /\ UNCHANGED xml

Spec == Init /\ [][Next]_vars

\* The inputs of the runs in which the store is written while it is built.
ConcWriteScenarios ==
  {[NoInputs EXCEPT !.leaves = {"Integer"}, !.ops = {"PowerSet"}],
   [NoInputs EXCEPT !.leaves = {"Float"}, !.ops = {"Product"}],
   [NoInputs EXCEPT !.leaves = {"Boolean"}, !.ops = {"Struct"},
                    !.fieldNames = {<<Name_a>>}, !.fieldKinds = LeafKinds]}

ConcWriteInit == EmptyStore /\ NoDocument /\ inputs \in ConcWriteScenarios

\* The threads call the factory.
ConcBuild ==
  /\ Running
  /\ \E t \in Threads :
       \/ \E r \in ConstructorCalls(inputs, Known) :
            Room(r, MaxNodes) /\ Call(t, r)
       \/ Step(t)
  /\ UNCHANGED xml

\* One more thread writes the store while the others build it.
ConcWriteNext ==
  \/ ConcBuild
  \/ WriteBegin
  \/ WriteRecord
  \/ WriteEnd

ConcWriteSpec == ConcWriteInit /\ [][ConcWriteNext]_vars

\* The inputs of the runs under fair scheduling.
LiveScenarios ==
  {[NoInputs EXCEPT !.leaves = {"Real"}, !.table = TRUE],
   [NoInputs EXCEPT !.leaves = {"String"}, !.ops = {"AbstractSet"},
                    !.names = {Name_a}]}

LiveInit == EmptyStore /\ NoDocument /\ inputs \in LiveScenarios

\* Fair scheduling and fair lock acquisition: a thread whose next step is
\* possible again and again takes it (the callers need not call).
Fairness == \A t \in Threads : SF_vars(Step(t))

\* Fair lock acquisition with any number of threads: as long as no thread
\* holds a mutex forever, no thread stays at an acquisition forever, even
\* when the mutex is never free because shared holders overlap.
LockFairness ==
  \/ \E u \in Threads : <>[](Held(u) # {})
  \/ \A t \in Threads :
        []<>(pc[t] \notin {"rlock", "wlock", "ilock", "slock"})

LiveSpec == LiveInit /\ [][Next]_vars /\ Fairness /\ LockFairness

\* The elements of the documents that are read.
PowerSetElement(arg) == [Element("PowerSet") EXCEPT !.arg = arg]
ProductElement(arg1, arg2) ==
  [Element("CartesianProduct") EXCEPT !.arg1 = arg1, !.arg2 = arg2]
AbstractSetElement(name) == [Element("AbstractSet") EXCEPT !.name = name]
EnumeratedSetElement(name, values) ==
  [Element("EnumeratedSet") EXCEPT !.name = name, !.values = values]
StructElement(fields) == [Element("StructType") EXCEPT !.fields = fields]
FieldElement(name, type) == [name |-> name, type |-> type]

\* The contents a RichType element of a document of n elements can have, by
\* family: references forward, backward and to itself; products; malformed
\* references; named sets, an unknown tag and no content; structs.
ReferenceContents(n) ==
  {<<Element("INTEGER")>>} \cup {<<PowerSetElement(Att(r))>> : r \in 0..(n - 1)}
ProductContents(n) ==
  {<<Element("FLOAT")>>}
  \cup {<<ProductElement(Att(r), Att(r))>> : r \in 0..(n - 1)}
  \cup {<<ProductElement(Att(r), Att(n - 1))>> : r \in 0..(n - 1)}
MalformedContents(n) ==
  {<<Element("INTEGER")>>, <<PowerSetElement(NoAttr)>>,
   <<PowerSetElement(Att(-1))>>, <<PowerSetElement(Att(n))>>,
   <<PowerSetElement(Att(0))>>, <<ProductElement(Att(0), Att(n))>>,
   <<ProductElement(Att(0), NoAttr)>>}
NamedContents(n) ==
  {<<>>, <<Element("REAL")>>, <<Element("STRING")>>, <<Element("Unknown")>>,
   <<AbstractSetElement(Att(Name_a))>>, <<AbstractSetElement(NoAttr)>>,
   <<EnumeratedSetElement(Att(Name_a), <<Att("v1")>>)>>,
   <<EnumeratedSetElement(Att(Name_a), <<Att("v2"), Att("v1")>>)>>,
   <<EnumeratedSetElement(NoAttr, <<Att("v1")>>)>>,
   <<EnumeratedSetElement(Att(Name_a), <<Att("v1"), NoAttr>>)>>}
StructContents(n) ==
  {<<Element("BOOL")>>, <<StructElement(<<>>)>>,
   <<StructElement(<<FieldElement(Att(Name_a), Att(0))>>)>>,
   <<StructElement(<<FieldElement(Att(Name_a), Att(1))>>)>>,
   <<StructElement(<<FieldElement(Att(Name_a), Att(n - 1))>>)>>,
   <<StructElement(<<FieldElement(Att(Name_b), Att(1)),
                     FieldElement(Att(Name_a), Att(0))>>)>>,
   <<StructElement(<<FieldElement(Att(Name_a), Att(n))>>)>>,
   <<StructElement(<<FieldElement(NoAttr, Att(0))>>)>>,
   <<StructElement(<<FieldElement(Att(Name_a), Att(0)),
                     FieldElement(Att(Name_b), NoAttr)>>)>>,
   <<StructElement(<<FieldElement(Att(Name_a), Att(1)),
                     FieldElement(Att(Name_b), NoAttr)>>)>>}

\* The documents of n elements with ids 0..n-1 in order and contents of one
\* family, and those with any ids and leaf contents.
ContiguousDocuments(n, contents) ==
  {[k \in 1..n |-> RichType(Att(k - 1), d[k])] : d \in [1..n -> contents]}
AnyIdDocuments(n) ==
  {[k \in 1..n |-> RichType(id[k], <<Element("INTEGER")>>)] :
     id \in [1..n -> {NoAttr} \cup {Att(i) : i \in -1..n}]}

\* The families of contents of the documents of n elements.
Families(n) ==
  {ReferenceContents(n), ProductContents(n), MalformedContents(n),
   NamedContents(n), StructContents(n)}

\* A process with an empty store is given a document to read.
LoadInit ==
  /\ EmptyStore
  /\ inputs = NoInputs
  /\ \E n \in 1..MaxRecords :
        \/ \E contents \in Families(n) :
              document \in ContiguousDocuments(n, contents)
        \/ document \in AnyIdDocuments(n)
  /\ source = [heap |-> <<>>, m_index |-> <<>>]
  /\ richTypeElements = <<>>
  /\ types = <<>>
  /\ frames = <<>>
  /\ loadI = 0
  /\ loadPc = "first"
  /\ loadError = ""

\* The main thread runs buildFromXML.
LoadNext ==
  \/ FirstPass
  \/ Drive
  \/ Resolve
  \/ Constructing
  \/ Verify

LoadSpec == LoadInit /\ [][LoadNext]_vars

\* buildFromXML runs on: the thread that called it is not held back, so a
\* step of the load that can be taken is taken.
LoadLiveSpec == LoadInit /\ [][LoadNext]_vars /\ WF_vars(LoadNext)

\* The inputs of the runs that build a store, write it and read it back.
RoundTripScenarios ==
  {[NoInputs EXCEPT !.leaves = {"Integer"}, !.ops = {"PowerSet"}],
   [NoInputs EXCEPT !.leaves = {"Boolean"}, !.ops = {"Product"}],
   [NoInputs EXCEPT !.ops = {"AbstractSet", "EnumeratedSet"},
                    !.names = {Name_a},
                    !.values = {<<"v1">>, <<"v2", "v1">>}],
   [NoInputs EXCEPT !.leaves = {"String"}, !.ops = {"Struct"},
                    !.fieldNames = {<<Name_b, Name_a>>},
                    !.fieldKinds = LeafKinds]}

RoundTripInit == EmptyStore /\ NoDocument /\ inputs \in RoundTripScenarios

\* The threads of a process call the constructors, until the store is
\* written.
Build ==
  /\ loadPc = "none"
  /\ Running
  /\ \E t \in Threads :
       \/ \E r \in ConstructorCalls(inputs, Known) :
            Room(r, MaxNodes) /\ Call(t, r)
       \/ Step(t)
  /\ UNCHANGED xml

\* A process builds a store and writes it; another process reads the
\* document into its empty store.
RoundTripNext ==
  \/ Build
  \/ WriteXMLRichTypesInfo
  \/ NewProcess
  \/ FirstPass
  \/ Drive
  \/ Resolve
  \/ Constructing
  \/ Verify

RoundTripSpec == RoundTripInit /\ [][RoundTripNext]_vars

\* The inputs of the runs with concurrent hash() calls, for some string
\* hashes.
HashScenarios ==
  {[NoInputs EXCEPT !.leaves = {"Real"}, !.hashMult = 33],
   [NoInputs EXCEPT !.ops = {"AbstractSet"}, !.names = {Name_a, Name_b}]}

HashInit == EmptyStore /\ NoDocument /\ inputs \in HashScenarios

\* Any number of threads build nodes and call hash() on the nodes they hold.
HashNext ==
  /\ Running
  /\ \E t \in Threads :
       \/ \E r \in ConstructorCalls(inputs, Known) :
            Room(r, MaxNodes) /\ Call(t, r)
       \/ \E h \in Known : HashCall(t, h)
       \/ Step(t)
       \/ HashStep(t)
  /\ UNCHANGED xml

HashSpec == HashInit /\ [][HashNext]_vars

\* The inputs of the runs in which one thread builds nodes and compares,
\* visits, converts and formats them.
UseScenarios ==
  {[NoInputs EXCEPT !.leaves = {"Float", "Real", "String"},
                    !.ops = {"Struct"}, !.fieldNames = {<<>>}],
   [NoInputs EXCEPT !.leaves = {"Integer"},
                    !.ops = {"Product", "PowerSet"}, !.hashMult = 33],
   [NoInputs EXCEPT !.ops = {"AbstractSet", "EnumeratedSet"},
                    !.names = {Name_a, Name_b}, !.values = {<<"v1">>}],
   [NoInputs EXCEPT !.leaves = {"Integer", "Boolean"}, !.ops = {"Struct"},
                    !.fieldNames = {<<Name_a, Name_b>>, <<Name_b, Name_a>>},
                    !.fieldKinds = LeafKinds]}

UseInit == EmptyStore /\ NoDocument /\ inputs \in UseScenarios

\* The thread calls a constructor, or goes on in the one it has called.
UseBuild ==
  /\ \/ \E r \in ConstructorCalls(inputs, Known) :
          /\ Cardinality(returned) < MaxSeqCalls
          /\ Room(r, MaxNodes + 1)
          /\ Call(MainThread, r)
     \/ Step(MainThread)
  /\ UNCHANGED xml

UseNext ==
  \/ UseBuild
  \/ UseCompare(MainThread)
  \/ UseAccept(MainThread)
  \/ UseConvert(MainThread)
  \/ UseFormat(MainThread)

UseSpec == UseInit /\ [][UseNext]_vars

\* The contents of the documents a process loads next to its constructor
\* calls: named sets with one name and two lists of values, a struct, a leaf.
KeyContents(n) ==
  {<<Element("BOOL")>>,
   <<EnumeratedSetElement(Att(Name_a), <<Att("v1")>>)>>,
   <<EnumeratedSetElement(Att(Name_a), <<Att("v2"), Att("v1")>>)>>,
   <<StructElement(<<FieldElement(Att(Name_a), Att(n - 1))>>)>>}

\* A process with an empty store, the constructors its thread calls and the
\* document it loads.
SessionInit ==
  /\ EmptyStore
  /\ source = [heap |-> <<>>, m_index |-> <<>>]
  /\ richTypeElements = <<>>
  /\ types = <<>>
  /\ frames = <<>>
  /\ loadI = 0
  /\ loadPc = "none"
  /\ loadError = ""
  /\ \E n \in 1..MaxRecords :
        \/ /\ inputs = [NoInputs EXCEPT !.leaves = {"Integer"},
                                        !.ops = {"PowerSet"}]
           /\ document \in ContiguousDocuments(n, ReferenceContents(n))
        \/ /\ inputs = [NoInputs EXCEPT !.leaves = {"Boolean"},
                                        !.ops = {"EnumeratedSet"},
                                        !.names = {Name_a},
                                        !.values = {<<"v2", "v1">>}]
           /\ document \in ContiguousDocuments(n, KeyContents(n))

\* The thread calls a constructor, or goes on in the one it has called,
\* before the document is loaded and between its two loads.
SessionBuild ==
  /\ loadPc = "none" \/ (loadPc = "done" /\ source.m_index = <<>>)
  /\ \/ \E r \in ConstructorCalls(inputs, Known) :
          Room(r, MaxNodes) /\ Call(MainThread, r)
     \/ Step(MainThread)
  /\ UNCHANGED xml

\* The thread calls buildFromXML on the document.
LoadBegin ==
  /\ loadPc = "none"
  /\ pc[MainThread] = "idle"
  /\ loadPc' = "first"
  /\ UNCHANGED <<store, pc, req, sortedFields, newType, ret, inputs, document,
                 source, richTypeElements, types, frames, loadI, loadError>>

\* After a load that has succeeded the thread calls buildFromXML on the same
\* document again; source keeps the store as it is at this call.
LoadAgain ==
  /\ loadPc = "done"
  /\ pc[MainThread] = "idle"
  /\ source.m_index = <<>>
  /\ source' = [heap |-> heap, m_index |-> m_index]
  /\ loadPc' = "first"
  /\ UNCHANGED <<store, pc, req, sortedFields, newType, ret, inputs, document,
                 richTypeElements, types, frames, loadI, loadError>>

\* One thread calls constructors and loads a document, twice.
SessionNext ==
  \/ SessionBuild
  \/ LoadBegin
  \/ LoadAgain
  \/ FirstPass
  \/ Drive
  \/ Resolve
  \/ Constructing
  \/ Verify

SessionSpec == SessionInit /\ [][SessionNext]_vars

\* The inputs of the single-threaded runs.
SeqScenarios ==
  {[NoInputs EXCEPT !.leaves = LeafOps, !.table = TRUE],
   [NoInputs EXCEPT !.leaves = {"Integer", "Boolean"},
                    !.ops = {"Product", "PowerSet"}],
   [NoInputs EXCEPT !.ops = {"AbstractSet", "EnumeratedSet"},
                    !.names = {Name_a, Name_b},
                    !.values = {<<"v1">>, <<"v2", "v1">>}],
   [NoInputs EXCEPT !.leaves = {"Integer", "Boolean"}, !.ops = {"Struct"},
                    !.fieldNames = {<<Name_a, Name_b>>, <<Name_b, Name_a>>},
                    !.fieldKinds = LeafKinds],
   [NoInputs EXCEPT !.leaves = {"Integer"}, !.ops = {"Struct"},
                    !.fieldNames = {<<>>, <<Name_a_b>>, <<Name_a, Name_b>>},
                    !.fieldKinds = LeafKinds],
   [NoInputs EXCEPT !.leaves = {"Integer", "Boolean"}, !.ops = {"Struct"},
                    !.fieldNames = {<<Name_a>>, <<Name_a, Name_a>>},
                    !.fieldKinds = LeafKinds]}

SeqInit == EmptyStore /\ NoDocument /\ inputs \in SeqScenarios

\* One thread calls the factory.
SeqNext ==
  /\ Running
  /\ \/ \E r \in ConstructorCalls(inputs, Known) :
          Cardinality(returned) < MaxSeqCalls /\ Call(MainThread, r)
     \/ \E r \in TableCalls : inputs.table /\ TableCall(MainThread, r)
     \/ Step(MainThread)
  /\ UNCHANGED xml

SeqSpec == SeqInit /\ [][SeqNext]_vars

\* -------------------------------------------------------------- claims
Handles == 1..Len(heap)

\* The partition and key under which a node is stored.
NodeKey(n) ==
  CASE n.m_kind \in LeafKinds -> <<"m_basicTypes", n.m_kind>>
    [] n.m_kind = "ProductType" -> <<"m_productTypes", <<n.lhs, n.rhs>> >>
    [] n.m_kind = "PowerType" -> <<"m_powerTypes", n.m_content>>
    [] n.m_kind = "AbstractSet" -> <<"m_abstractSets", n.m_name>>
    [] n.m_kind = "EnumeratedSet" -> <<"m_enumeratedSets", n.m_name>>
    [] n.m_kind = "Struct" -> <<"m_structTypes", KeyString(n.m_fields)>>

\* The children of a node.
Children(n) ==
  CASE n.m_kind = "ProductType" -> {n.lhs, n.rhs}
    [] n.m_kind = "PowerType" -> {n.m_content}
    [] n.m_kind = "Struct" -> {n.m_fields[i].second : i \in 1..Len(n.m_fields)}
    [] OTHER -> {}

\* Whether handle h has its index and stands at it in the index table.
Indexed(h) ==
  /\ heap[h].m_index < Len(m_index)
  /\ m_index[heap[h].m_index + 1] = h

Quiescent == \A t \in Threads : pc[t] = "idle"

\* The thread is past the shared-lock lookup, which missed, and finds the
\* node under the exclusive lock: another thread has built it meanwhile.
LostRace(t) ==
  pc[t] = "wfind" /\ Find(req[t], sortedFields[t]) # NULL

\* C1: any two constructor calls with the same key (leaf kind, product
\* children, power-set content, abstract or enumerated set name) have
\* returned the same node, whatever the interleaving of the calls.
C1_CanonicalIdentity ==
  \A e1, e2 \in returned :
     (e1.req.op # "Struct" /\ Key(e1.req) = Key(e2.req)) => e1.h = e2.h

\* C1 witness: two different calls with one key have returned one node while
\* a third call with that key, which missed under the shared lock, is about
\* to find it under the exclusive lock.
C1_Witness ==
  \E e1, e2 \in returned :
     /\ e1 # e2
     /\ e1.req.op # "Struct"
     /\ Key(e1.req) = Key(e2.req)
     /\ e1.h = e2.h
     /\ \E t \in Threads : LostRace(t) /\ Key(req[t]) = Key(e1.req)

\* C2: at most one node is ever built per key, also when several threads
\* miss the shared-lock lookup together; and once all calls have returned,
\* the callers of one key hold one handle and size() counts one entry per
\* key requested.
C2_OneConstruction ==
  /\ \A h1, h2 \in Handles :
        NodeKey(heap[h1]) = NodeKey(heap[h2]) => h1 = h2
  /\ Quiescent =>
       /\ \A e1, e2 \in returned : Key(e1.req) = Key(e2.req) => e1.h = e2.h
       /\ Len(m_index) = Cardinality({Key(e.req) : e \in returned})

\* C2 witness: two threads have missed the shared-lock lookup of one key; one
\* has built the node, the other holds the exclusive lock and finds it.
C2_Witness ==
  \E t, u \in Threads :
     /\ t # u
     /\ LostRace(t)
     /\ pc[u] \in {"ilock", "iset", "ipush"}
     /\ newType[u] = Find(req[t], sortedFields[t])

\* C3: every handle a constructor call has returned has an index i with
\* i < size() and at(i) that handle, from the moment the call returns.
C3_IndexAssignedAtReturn == \A e \in returned : Indexed(e.h)

\* C4: the index table is dense and consistent: at(i).index() = i for every
\* i below size(), and no node stands at two positions.
C4_IndexDense ==
  /\ \A i \in 1..Len(m_index) :
        m_index[i] \in Handles /\ heap[m_index[i]].m_index = i - 1
  /\ \A i, j \in 1..Len(m_index) : m_index[i] = m_index[j] => i = j

\* C4 witness: the table holds a node and the next is being indexed under
\* the index lock while another thread waits to read the table or to index.
C4_Witness ==
  /\ Len(m_index) >= 1
  /\ \E t, u \in Threads :
        /\ pc[t] = "ipush"
        /\ heap[newType[t]].m_index = Len(m_index)
        /\ pc[u] \in {"ilock", "slock"}

\* C5: every child of a composite node of the index table has an index
\* strictly less than the composite's.
C5_ChildIndexBelowParent ==
  \A i \in 1..Len(m_index) :
     \A c \in Children(heap[m_index[i]]) :
        heap[c].m_index < heap[m_index[i]].m_index

\* The structural value of a call as C6 words it: a Struct's is its set of
\* (field name, field type) pairs, the others' their key.
Value(r) ==
  IF r.op = "Struct"
  THEN <<"Struct", {r.fields[i] : i \in 1..Len(r.fields)}>>
  ELSE Key(r)

\* C6 as claimed: in a sequence of calls, each call adds one entry when its
\* structural value was not requested before and none otherwise, so that
\* after every call size() is the number of values requested so far.
C6_SizeCountsValues ==
  pc[MainThread] = "idle" =>
     Len(m_index) = Cardinality({Value(e.req) : e \in returned})

\* C6 as amended: a Struct's structural value is its key string, the sorted
\* field names each followed by ';': after every call of a sequence, size()
\* is the number of keys requested so far.
C6_SizeCountsKeys ==
  pc[MainThread] = "idle" =>
     Len(m_index) = Cardinality({Key(e.req) : e \in returned})

\* C6 witness: struct calls of one key and different field types have both
\* returned, and the table holds the struct and its field types.
C6_Witness ==
  /\ pc[MainThread] = "idle"
  /\ Len(m_index) >= 3
  /\ \E e1, e2 \in returned :
        /\ e1.req.op = "Struct"
        /\ Key(e1.req) = Key(e2.req)
        /\ Value(e1.req) # Value(e2.req)

\* C7: struct(f) and struct(p) return the same node, hence the same index,
\* for every permutation p of f, and every Struct node's stored fields are
\* in non-decreasing order of name.
C7_StructPermutation ==
  /\ \A e1, e2 \in returned :
        (/\ e1.req.op = "Struct"
         /\ e2.req.op = "Struct"
         /\ e2.req.fields \in Orderings(e1.req.fields))
        => (e1.h = e2.h /\ heap[e1.h].m_index = heap[e2.h].m_index)
  /\ \A h \in Handles :
        heap[h].m_kind = "Struct" =>
           \A i \in 1..(Len(heap[h].m_fields) - 1) :
              ~StrLess(heap[h].m_fields[i + 1].first, heap[h].m_fields[i].first)

\* C7 witness: a field list given out of order and a different permutation of
\* it have both been requested, and the node stores the fields in order.
C7_Witness ==
  \E e1, e2 \in returned :
     /\ e1.req.op = "Struct"
     /\ e2.req.op = "Struct"
     /\ e1.req.fields # e2.req.fields
     /\ e2.req.fields \in Orderings(e1.req.fields)
     /\ ~IsSorted(e1.req.fields)
     /\ e1.h = e2.h
     /\ Indexed(e1.h)
     /\ heap[e1.h].m_fields = e2.req.fields

\* C8: enumeratedSet(name, v2) after enumeratedSet(name, v1), v2 # v1,
\* returns the node the first call built, whose values are still v1, and the
\* store holds one enumerated set of that name.
C8_EnumFirstWins ==
  \A e1, e2 \in returned :
     (/\ e1.req.op = "EnumeratedSet"
      /\ e2.req.op = "EnumeratedSet"
      /\ e1.req.name = e2.req.name
      /\ e1.req.values # e2.req.values
      /\ createdBy[e1.h] = e1.req)
     => /\ e2.h = e1.h
        /\ heap[e1.h].m_values = e1.req.values
        /\ heap[e1.h].m_name = e1.req.name
        /\ Cardinality({i \in 1..Len(m_index) :
                          /\ heap[m_index[i]].m_kind = "EnumeratedSet"
                          /\ heap[m_index[i]].m_name = e1.req.name}) = 1

\* C8 witness: both calls have returned.
C8_Witness ==
  \E e1, e2 \in returned :
     /\ e1.req.op = "EnumeratedSet"
     /\ e2.req.op = "EnumeratedSet"
     /\ e1.req.name = e2.req.name
     /\ e1.req.values # e2.req.values
     /\ createdBy[e1.h] = e1.req
     /\ pc[MainThread] = "idle"

\* The names of a field list in sorted order.
SortedNames(fields) ==
  LET g == CHOOSE x \in Sort(fields) : TRUE
  IN [i \in 1..Len(g) |-> g[i].first]

\* The set of field names of a field list, and its set of (name, type) pairs.
NameSet(fields) == {fields[i].first : i \in 1..Len(fields)}
PairSet(fields) == {fields[i] : i \in 1..Len(fields)}

\* C9 as claimed: struct(f2) after struct(f1), f1 and f2 having the same set
\* of field names and a different type for some field, returns the node
\* built for f1 and adds no entry to the store.
C9_StructFirstWinsBySet ==
  \A e1, e2 \in returned :
     (/\ e1.req.op = "Struct"
      /\ e2.req.op = "Struct"
      /\ NameSet(e1.req.fields) = NameSet(e2.req.fields)
      /\ PairSet(e1.req.fields) # PairSet(e2.req.fields)
      /\ createdBy[e1.h] = e1.req)
     => e2.h = e1.h

\* C9 as amended: struct(f2) after struct(f1), f1 and f2 having the same
\* sorted sequence of field names (the same names, each as many times) and a
\* different type for some field, returns the node built for f1, which still
\* carries f1's field types, and the store holds one struct of that key.
C9_StructFirstWins ==
  \A e1, e2 \in returned :
     (/\ e1.req.op = "Struct"
      /\ e2.req.op = "Struct"
      /\ SortedNames(e1.req.fields) = SortedNames(e2.req.fields)
      /\ e2.req.fields \notin Orderings(e1.req.fields)
      /\ createdBy[e1.h] = e1.req)
     => /\ e2.h = e1.h
        /\ heap[e1.h].m_fields \in Sort(e1.req.fields)
        /\ Cardinality({i \in 1..Len(m_index) :
                          /\ heap[m_index[i]].m_kind = "Struct"
                          /\ KeyString(heap[m_index[i]].m_fields)
                               = KeyString(heap[e1.h].m_fields)}) = 1

\* C9 witness: both calls have returned.
C9_Witness ==
  \E e1, e2 \in returned :
     /\ e1.req.op = "Struct"
     /\ e2.req.op = "Struct"
     /\ SortedNames(e1.req.fields) = SortedNames(e2.req.fields)
     /\ e2.req.fields \notin Orderings(e1.req.fields)
     /\ createdBy[e1.h] = e1.req
     /\ pc[MainThread] = "idle"

\* The threads about to acquire a mutex, and the mutex each waits for.
Acquiring == {t \in Threads : pc[t] \in {"rlock", "wlock", "ilock", "slock"}}
WaitsFor(t) ==
  IF pc[t] \in {"rlock", "wlock"} THEN MutexOf(req[t]) ELSE "m_mutexIndex"

\* C10: a thread that acquires a mutex of the store holds none, so no state
\* is deadlocked: every call in progress can take its next step, or waits
\* for a mutex whose holder can take its own.
C10_NoNestedLocks ==
  /\ \A t \in Acquiring : Held(t) = {}
  /\ \A t \in Threads : Cardinality(Held(t)) <= 1
  /\ Running =>
       \A t \in Threads :
          pc[t] # "idle" =>
             \/ ENABLED Step(t)
             \/ \E u \in Threads \ {t} :
                   WaitsFor(t) \in Held(u) /\ ENABLED Step(u)

\* C10 witness: a size() or at() call waits for the index mutex, which a
\* constructor holds while it indexes its node.
C10_Witness ==
  \E t, u \in Threads :
     /\ pc[t] = "slock"
     /\ ~ENABLED Step(t)
     /\ pc[u] \in {"iset", "ipush"}
     /\ "m_mutexIndex" \in Held(u)

\* The positions of a thread inside a constructor call.
InConstructor ==
  {"rlock", "rfind", "wlock", "wfind", "ilock", "iset", "ipush", "return"}

\* C11: under fair scheduling and fair lock acquisition, every constructor
\* call in progress eventually returns, whatever the other threads do (unless
\* an at() past the end of the table has ended the process).
C11_EveryCallReturns ==
  \A t \in Threads :
     (pc[t] \in InConstructor) ~> (pc[t] = "idle" \/ ~Running)

\* C11 witness: a constructor call waits for the exclusive lock of its
\* partition while another thread holds the shared lock of that partition.
C11_Witness ==
  \E t, u \in Threads :
     /\ pc[t] = "wlock"
     /\ ~ENABLED Step(t)
     /\ pc[u] = "rfind"
     /\ MutexOf(req[t]) \in Held(u)

\* The call that built node h has returned.
CreatorReturned(h) == \A t \in Threads : newType[t] # h

\* C12 as claimed: of two nodes built by different calls, the one whose call
\* returns first has the smaller index: a node whose call has returned has a
\* smaller index than an indexed node whose call has yet to return.
C12_IndexOrderIsReturnOrder ==
  \A x, y \in Handles :
     (CreatorReturned(x) /\ ~CreatorReturned(y) /\ Indexed(y))
     => heap[x].m_index < heap[y].m_index

\* C12 as amended: index order is the order in which the creating calls run
\* index(): a node that is given its index gets one larger than that of
\* every node indexed before, whether or not the calls that built those
\* nodes have returned.
C12_IndexOrderIsIndexingOrder ==
  \A t \in Threads :
     pc[t] = "ipush" =>
        \A x \in Handles \ {newType[t]} :
           heap[x].m_index # SIZE_MAX =>
              heap[x].m_index < heap[newType[t]].m_index

\* C12 witness: a node is given its index while the call that built the node
\* indexed before it has yet to return.
C12_Witness ==
  \E t, u \in Threads :
     /\ pc[t] = "ipush"
     /\ pc[u] = "return"
     /\ heap[newType[u]].m_index < heap[newType[t]].m_index

\* C13: in a single thread starting from an empty store, the k-th call that
\* builds a node gives it index k-1 (handle k is the k-th node built), and
\* every handle a call has returned, built by it or found, has that index
\* and stands at it in the table.
C13_SequentialIndex ==
  pc[MainThread] = "idle" =>
     /\ Len(m_index) = Len(heap)
     /\ \A k \in Handles : heap[k].m_index = k - 1 /\ m_index[k] = k
     /\ \A e \in returned : heap[e.h].m_index = e.h - 1 /\ Indexed(e.h)

\* C13 witness: three nodes are built, and a later call of other arguments
\* has returned a node built before it, which is not the first of the table.
C13_Witness ==
  /\ pc[MainThread] = "idle"
  /\ Len(m_index) >= 3
  /\ \E e \in returned : createdBy[e.h] # e.req /\ heap[e.h].m_index >= 1

\* The payload of a node: everything but its index.
Payload(n) == [n EXCEPT !.m_index = SIZE_MAX]

\* C14: the store is append-only: in every step size() does not decrease,
\* every position of the table keeps its node, every node stays and keeps
\* its payload, and an index that is assigned does not change; and once all
\* calls have returned every node has its index.
C14_AppendOnly ==
  /\ [](Quiescent => \A h \in Handles : heap[h].m_index # SIZE_MAX)
  /\ [][/\ Len(m_index') >= Len(m_index)
        /\ \A i \in 1..Len(m_index) : m_index'[i] = m_index[i]
        /\ Len(heap') >= Len(heap)
        /\ \A h \in Handles :
              /\ Payload(heap'[h]) = Payload(heap[h])
              /\ heap[h].m_index # SIZE_MAX =>
                    heap'[h].m_index = heap[h].m_index]_vars

\* C14 witness: the table holds a node, and another node, built and not yet
\* indexed, is about to get its index.
C14_Witness ==
  /\ Len(m_index) >= 1
  /\ \E t \in Threads :
        pc[t] = "iset" /\ heap[newType[t]].m_index = SIZE_MAX

\* The tags the reader knows.
LeafTags == {"BOOL", "INTEGER", "REAL", "FLOAT", "STRING"}
Tags == LeafTags \cup {"PowerSet", "CartesianProduct", "AbstractSet",
                       "EnumeratedSet", "StructType"}

\* The reference attributes of an element, and the ids they refer to.
RefAttrs(e) ==
  CASE e.tag = "PowerSet" -> {e.arg}
    [] e.tag = "CartesianProduct" -> {e.arg1, e.arg2}
    [] e.tag = "StructType" -> {e.fields[j].type : j \in 1..Len(e.fields)}
    [] OTHER -> {}
Refs(rec) ==
  IF rec.def = <<>> THEN {}
  ELSE {a[1] : a \in {x \in RefAttrs(Head(rec.def)) : x # NoAttr}}

\* The ways a record can be malformed, in a document of n records.
EmptyDefinition(rec) == rec.def = <<>>
UnknownTag(rec) == rec.def # <<>> /\ Head(rec.def).tag \notin Tags
MissingAttribute(rec) ==
  /\ rec.def # <<>>
  /\ LET e == Head(rec.def)
     IN \/ NoAttr \in RefAttrs(e)
        \/ e.tag \in {"AbstractSet", "EnumeratedSet"} /\ e.name = NoAttr
        \/ e.tag = "EnumeratedSet"
           /\ \E j \in 1..Len(e.values) : e.values[j] = NoAttr
        \/ e.tag = "StructType"
           /\ \E j \in 1..Len(e.fields) : e.fields[j].name = NoAttr
OutOfRangeRef(rec, n) == \E r \in Refs(rec) : r < 0 \/ r >= n
Malformed(rec, n) ==
  \/ EmptyDefinition(rec)
  \/ UnknownTag(rec)
  \/ MissingAttribute(rec)
  \/ OutOfRangeRef(rec, n)

\* The ids of a document are 0..n-1 in document order.
ContiguousIds(doc) == \A k \in 1..Len(doc) : doc[k].id = Att(k - 1)

\* The ids reachable from the ids of S by at most m in-range references.
RECURSIVE ReachableIn(_, _, _)
ReachableIn(doc, S, m) ==
  IF m = 0 THEN S
  ELSE ReachableIn(doc,
                   S \cup UNION {Refs(doc[k + 1]) \cap (0..(Len(doc) - 1)) : k \in S},
                   m - 1)

\* The in-range references of a document form a cycle.
Cyclic(doc) ==
  \E k \in 0..(Len(doc) - 1) :
     k \in ReachableIn(doc, Refs(doc[k + 1]) \cap (0..(Len(doc) - 1)), Len(doc))

\* A document of valid records with contiguous ids and acyclic references.
WellFormed(doc) ==
  /\ ContiguousIds(doc)
  /\ \A k \in 1..Len(doc) : ~Malformed(doc[k], Len(doc))
  /\ ~Cyclic(doc)

\* Some record of the document refers to a larger id.
ForwardReference(doc) ==
  \E k \in 1..Len(doc) : \E r \in Refs(doc[k]) : r > k - 1

\* The nodes built for the records that the record at place k refers to.
ReferencedNodes(k) == {types[r + 1] : r \in Refs(document[k])}

StructFound(k) ==
  /\ Head(document[k].def).tag = "StructType"
  /\ PairSet(createdBy[types[k]].fields) #
       {[first |-> f.name[1], second |-> types[f.type[1] + 1]] :
          f \in {Head(document[k].def).fields[j] :
                   j \in 1..Len(Head(document[k].def).fields)}}

EveryIdOnce(doc) ==
  \A i \in 0..(Len(doc) - 1) :
     Cardinality({k \in 1..Len(doc) : doc[k].id = Att(i)}) = 1

\* C18: a record list in which every id of 0..N-1 occurs exactly once is
\* accepted whatever the order of the records in the document; only a list
\* with a gap or a duplicate id fails for its ids.
C18_AnyOrderOfIdsAccepted ==
  loadPc = "failed"
  /\ loadError \in {"Invalid or missing id attribute",
                    "RichType indexing is not contiguous"}
  => ~EveryIdOnce(document)

\* Some record of a document has a missing or negative id, or an id that is
\* not the number of records before it.
BadIds(doc) ==
  \E k \in 1..Len(doc) :
     doc[k].id = NoAttr \/ doc[k].id[1] < 0 \/ doc[k].id[1] # k - 1

\* No constructor has been called: the store is as it was made.
StoreUntouched ==
  /\ heap = <<>>
  /\ m_index = <<>>
  /\ returned = {}
  /\ m_basicTypes = [k \in LeafKinds |-> NULL]
  /\ \A t \in Threads : pc[t] = "idle" /\ req[t] = NoReq

\* C19: a document with a missing, negative or non-contiguous id fails in
\* the first pass with an Exception, before any constructor is called, and
\* the store is as it was before the load.
C19_BadIdFailsBeforeConstruction ==
  BadIds(document) =>
    /\ loadPc \in {"first", "failed"}
    /\ loadPc = "failed" =>
         loadError \in {"Invalid or missing id attribute",
                        "RichType indexing is not contiguous"}
    /\ StoreUntouched

\* C19 witness: the document with ids 0, 2 has failed for its gap, the store
\* still empty.
C19_Witness ==
  /\ Len(document) = 2
  /\ document[1].id = Att(0)
  /\ document[2].id = Att(2)
  /\ loadPc = "failed"
  /\ loadError = "RichType indexing is not contiguous"
  /\ StoreUntouched

\* The messages of the Exceptions that typeOfXmlElement throws.
ResolveErrors ==
  {"Empty RichType element", "Invalid PowerSet arg reference",
   "Invalid CartesianProduct arg references",
   "Missing AbstractSet name attribute",
   "Missing EnumeratedSet name attribute",
   "Missing EnumeratedValue name attribute",
   "Invalid Struct field definition", "Unknown type element"}

\* A document with ids 0..n-1 in order and a malformed record somewhere.
MalformedDocument(doc) ==
  ContiguousIds(doc) /\ \E k \in 1..Len(doc) : Malformed(doc[k], Len(doc))

\* The load is over: buildFromXML has no step left to take.
LoadOver == loadPc \in {"done", "failed", "overflow", "out_of_range"}

\* Every position typeOfXmlElement is invoked for is a position of the
\* record and result tables.
PositionsInRange ==
  /\ loadPc # "out_of_range"
  /\ \A j \in 1..Len(frames) : frames[j].pos \in 0..(Len(types) - 1)

TagKind(tag) ==
  CASE tag = "BOOL" -> "BOOLEAN"
    [] tag = "INTEGER" -> "INTEGER"
    [] tag = "REAL" -> "REAL"
    [] tag = "FLOAT" -> "FLOAT"
    [] tag = "STRING" -> "STRING"
    [] tag = "PowerSet" -> "PowerType"
    [] tag = "CartesianProduct" -> "ProductType"
    [] tag = "AbstractSet" -> "AbstractSet"
    [] tag = "EnumeratedSet" -> "EnumeratedSet"
    [] tag = "StructType" -> "Struct"
    [] OTHER -> "none"

\* The place of handle h in an index table (from 0), -1 if it has none.
PlaceIn(table, h) ==
  IF \E i \in 1..Len(table) : table[i] = h
  THEN (CHOOSE i \in 1..Len(table) : table[i] = h) - 1
  ELSE -1

\* The kind and attributes of a node of a store (its nodes hp, its index
\* table): name, enumerated values, field names, and the places of its
\* children in the table.
Attributes(hp, table, n) ==
  [kind |-> n.m_kind,
   name |-> n.m_name,
   values |-> n.m_values,
   fieldNames |-> [j \in 1..Len(n.m_fields) |-> n.m_fields[j].first],
   children |->
     CASE n.m_kind = "ProductType" ->
            <<PlaceIn(table, n.lhs), PlaceIn(table, n.rhs)>>
       [] n.m_kind = "PowerType" -> <<PlaceIn(table, n.m_content)>>
       [] n.m_kind = "Struct" ->
            [j \in 1..Len(n.m_fields) |-> PlaceIn(table, n.m_fields[j].second)]
       [] OTHER -> <<>>]

\* C15: a store at rest, built by any sequence or interleaving of
\* constructor calls, is written and read into an empty store: the new store
\* has the size of the source and, at every index, a node of the same kind
\* and attributes (name, values, field names, child indices) as the source.
C15_RoundTrip ==
  loadPc \in {"done", "failed", "overflow", "out_of_range"} =>
    /\ loadPc = "done"
    /\ Len(m_index) = Len(source.m_index)
    /\ \A i \in 1..Len(source.m_index) :
          Attributes(heap, m_index, heap[m_index[i]])
            = Attributes(source.heap, source.m_index,
                         source.heap[source.m_index[i]])

\* C16: on a store at rest of size N the writer emits N records with ids
\* 0..N-1 in that order; record i has the tag of the kind of at(i); every
\* arg, arg1, arg2 and type is the place of the child in the index table and
\* lies in 0..N-1; Field elements come in sorted name order and
\* EnumeratedValue elements in the stored order.
C16_RecordsByIndex ==
  loadPc # "none" =>
    /\ Len(document) = Len(source.m_index)
    /\ \A i \in 1..Len(document) :
          LET n == source.heap[source.m_index[i]]
              e == Head(document[i].def)
              place(h) == PlaceIn(source.m_index, h)
          IN /\ document[i].id = Att(i - 1)
             /\ Len(document[i].def) = 1
             /\ TagKind(e.tag) = n.m_kind
             /\ Refs(document[i]) \subseteq 0..(Len(document) - 1)
             /\ n.m_kind = "PowerType" => e.arg = Att(place(n.m_content))
             /\ n.m_kind = "ProductType" =>
                  e.arg1 = Att(place(n.lhs)) /\ e.arg2 = Att(place(n.rhs))
             /\ n.m_kind \in {"AbstractSet", "EnumeratedSet"} =>
                  e.name = Att(n.m_name)
             /\ e.values = [j \in 1..Len(n.m_values) |-> Att(n.m_values[j])]
             /\ e.fields = [j \in 1..Len(n.m_fields) |->
                              FieldElement(Att(n.m_fields[j].first),
                                           Att(place(n.m_fields[j].second)))]
             /\ \A j, k \in 1..Len(e.fields) :
                   j < k => ~StrLess(e.fields[k].name[1], e.fields[j].name[1])

\* C16 witness: a written document in which a record refers to a child by
\* an index that is not the place of the child's creation.
C16_Witness ==
  /\ loadPc = "written"
  /\ \E i \in 1..Len(document) :
        /\ Head(document[i].def).tag = "PowerSet"
        /\ Head(document[i].def).arg # Att(source.heap[source.m_index[i]].m_content - 1)

\* C16 witness of the orders: a written document with a StructType of two
\* Field elements and one with an EnumeratedSet of two EnumeratedValue
\* elements.
C16_OrdersWitness ==
  /\ loadPc = "written"
  /\ \E i \in 1..Len(document) :
        \/ Len(Head(document[i].def).fields) = 2
        \/ Len(Head(document[i].def).values) = 2

\* The handle that a lookup of the key of request r finds in the store.
Interned(r) ==
  Find(r, CHOOSE sf \in (IF r.op = "Struct" THEN Sort(r.fields) ELSE {<<>>}) : TRUE)

\* C21: a failed load is not rolled back: the step that detects the failure
\* leaves the store as it is, no step of the load removes or changes a node
\* or a place of the index table, and after the failure every node that a
\* constructor returned is in its cache and at its index.
C21_FailedLoadKeepsNodes ==
  /\ [](loadPc = "failed" =>
          \A e \in returned :
             e.h \in Handles /\ Indexed(e.h) /\ Interned(e.req) = e.h)
  /\ [][/\ loadPc' = "failed" => UNCHANGED <<heap, caches, m_index>>
        /\ Len(m_index') >= Len(m_index)
        /\ \A i \in 1..Len(m_index) : m_index'[i] = m_index[i]
        /\ Len(heap') >= Len(heap)
        /\ \A h \in Handles :
              /\ Payload(heap'[h]) = Payload(heap[h])
              /\ heap[h].m_index # SIZE_MAX =>
                    heap'[h].m_index = heap[h].m_index]_vars

\* C21 witness: the first StructType record has a valid first field, which
\* refers to a later record, and an invalid second field; the load has
\* failed at it, and the type of the first field is in the store.
C21_Witness ==
  /\ loadPc = "failed"
  /\ loadError = "Invalid Struct field definition"
  /\ Len(types) >= 2
  /\ document[1].def # <<>>
  /\ LET e == Head(document[1].def)
     IN /\ Len(e.fields) = 2
        /\ e.fields[1].type = Att(1)
        /\ e.fields[2].type = NoAttr
        /\ types[1] = NULL
        /\ types[2] \in Handles
        /\ Indexed(types[2])

\* Position k of a document is on a cycle of in-range references.
OnCycle(doc, k) ==
  /\ k \in 0..(Len(doc) - 1)
  /\ k \in ReachableIn(doc, Refs(doc[k + 1]) \cap (0..(Len(doc) - 1)), Len(doc))

\* Resolution has reached a position on a cycle: typeOfXmlElement has been
\* invoked for it and has not returned.
CycleReached ==
  \E j \in 1..Len(frames) : OnCycle(document, frames[j].pos)

\* No position on a cycle has a node in types.
CycleNeverCached ==
  \A k \in 0..(Len(types) - 1) : OnCycle(document, k) => types[k + 1] = NULL

C23_HashIsHashCombine ==
  \A t \in Threads :
     ret[t].kind = "hash" => ret[t].val = hash_combine(ret[t].node, 0)

\* C25: at(index) with index >= size() ends the process: it returns no
\* handle and leaves the store as it is; at(index) with index < size()
\* returns the node at that place of the table.
C25_AtPastEndIsFatal ==
  [][\A t \in Threads :
        pc[t] = "sread" /\ req[t].op = "at" /\ pc'[t] # "sread" =>
          IF req[t].index >= Len(m_index)
          THEN pc'[t] = "abort" /\ UNCHANGED <<heap, caches, m_index>>
          ELSE /\ pc'[t] = "idle"
               /\ ret'[t] = [kind |-> "handle",
                             val |-> m_index[req[t].index + 1]]]_vars

\* C24: compare(a, b) is 0 exactly when the structural hashes of a and b
\* are equal, -1 when the hash of a is the smaller one and 1 otherwise; so
\* compare(a, b) = -compare(b, a), compare is transitive, and of the six
\* operators a <= b and a >= b hold together exactly when a == b, a != b is
\* the negation of a == b, and a < b, a > b are the strict parts; for every
\* pair of nodes that is compared and every third node of the store.
C24_CompareByHash ==
  \A t \in Threads :
     ret[t].kind = "compare" =>
       LET a == ret[t].v1
           b == ret[t].v2
           ha == hash_combine(a, 0)
           hb == hash_combine(b, 0)
       IN /\ ret[t].val = compare(a, b)
          /\ ret[t].val \in {-1, 0, 1}
          /\ ret[t].val = 0 <=> ha = hb
          /\ ret[t].val = -1 <=> ha < hb
          /\ ret[t].val = 1 <=> ha > hb
          /\ compare(a, b) = -compare(b, a)
          /\ OpEq(a, b) <=> OpLe(a, b) /\ OpGe(a, b)
          /\ OpNe(a, b) <=> ~OpEq(a, b)
          /\ OpLt(a, b) <=> OpLe(a, b) /\ ~OpEq(a, b)
          /\ OpGt(a, b) <=> OpGe(a, b) /\ ~OpEq(a, b)
          /\ OpLt(a, b) <=> OpGt(b, a)
          /\ \A c \in Handles :
               /\ OpLe(a, b) /\ OpLe(b, c) => OpLe(a, c)
               /\ OpLt(a, b) /\ OpLt(b, c) => OpLt(a, c)

\* Three nodes in strictly growing order have been built and a comparison
\* has answered 1.
C24_Witness ==
  /\ ret[MainThread].kind = "compare"
  /\ ret[MainThread].val = 1
  /\ \E a \in Handles, b \in Handles, c \in Handles : OpLt(a, b) /\ OpLt(b, c)

\* The kind a visit method stands for, and the kind a conversion asks for.
KindOfVisit(visit) ==
  CASE visit = "visitINTEGER" -> "INTEGER"
    [] visit = "visitBOOLEAN" -> "BOOLEAN"
    [] visit = "visitFLOAT" -> "FLOAT"
    [] visit = "visitREAL" -> "REAL"
    [] visit = "visitSTRING" -> "STRING"
    [] visit = "visitProductType" -> "ProductType"
    [] visit = "visitPowerType" -> "PowerType"
    [] visit = "visitAbstractSet" -> "AbstractSet"
    [] visit = "visitEnumeratedSet" -> "EnumeratedSet"
    [] visit = "visitStructType" -> "Struct"
KindOfConversion(to) ==
  CASE to = "toProductType" -> "ProductType"
    [] to = "toPowerType" -> "PowerType"
    [] to = "toAbstractSetType" -> "AbstractSet"
    [] to = "toEnumeratedSetType" -> "EnumeratedSet"
    [] to = "toStructType" -> "Struct"

\* C27: accept on a node calls the visit method of the node's kind, for each
\* of the ten kinds, and a conversion toXType answers the node itself when
\* the node's kind is X and nullptr when it is another kind.
C27_VisitAndConversionMatchKind ==
  /\ \A t \in Threads :
       /\ ret[t].kind = "accept" =>
            KindOfVisit(ret[t].val) = heap[ret[t].node].m_kind
       /\ ret[t].kind \in Conversions =>
            /\ ret[t].val # NULL <=>
                 heap[ret[t].node].m_kind = KindOfConversion(ret[t].kind)
            /\ ret[t].val \in {NULL, ret[t].node}
  /\ \A h \in Handles :
       /\ KindOfVisit(accept(h)) = heap[h].m_kind
       /\ \A to \in Conversions :
            Convert(to, h) # NULL <=> heap[h].m_kind = KindOfConversion(to)

\* An enumerated set has been visited, next to an abstract set of the store.
C27_Witness ==
  /\ ret[MainThread].kind = "accept"
  /\ heap[ret[MainThread].node].m_kind = "EnumeratedSet"
  /\ \E h \in Handles : heap[h].m_kind = "AbstractSet"

\* A conversion has answered nullptr for a node of another kind.
C27_NullWitness ==
  /\ ret[MainThread].kind = "toPowerType"
  /\ heap[ret[MainThread].node].m_kind = "ProductType"
  /\ ret[MainThread].val = NULL

\* The rendering a node is to have, from the constructor call that built it:
\* the fields of a struct are taken from the call's field list by growing
\* name, whatever their place in the list.
RECURSIVE Rendering(_)
RECURSIVE RenderingOfFields(_, _, _)
RenderingOfFields(fields, rest, first) ==
  IF rest = {} THEN <<>>
  ELSE LET i == CHOOSE x \in rest :
                   \A y \in rest : ~StrLess(fields[y].first, fields[x].first)
       IN (IF first THEN <<>> ELSE <<44, 32>>)
          \o fields[i].first \o <<58, 32>> \o Rendering(fields[i].second)
          \o RenderingOfFields(fields, rest \ {i}, FALSE)
Rendering(h) ==
  LET r == createdBy[h]
  IN CASE r.op = "Integer" -> <<73, 78, 84, 69, 71, 69, 82>>
       [] r.op = "Boolean" -> <<66, 79, 79, 76, 69, 65, 78>>
       [] r.op = "Float" -> <<70, 76, 79, 65, 84>>
       [] r.op = "Real" -> <<82, 69, 65, 76>>
       [] r.op = "String" -> <<83, 84, 82, 73, 78, 71>>
       [] r.op = "Product" ->
            <<40>> \o Rendering(r.lhs) \o <<32, 195, 151, 32>>
            \o Rendering(r.rhs) \o <<41>>
       [] r.op = "PowerSet" ->
            <<226, 132, 153, 40>> \o Rendering(r.content) \o <<41>>
       [] r.op \in {"AbstractSet", "EnumeratedSet"} -> r.name
       [] r.op = "Struct" ->
            <<115, 116, 114, 117, 99, 116, 40, 123>>
            \o RenderingOfFields(r.fields, 1..Len(r.fields), TRUE)
            \o <<125, 41>>

\* C26: the text of a node is that of its kind: the label of a leaf,
\* (L × R) of a product, ℙ(C) of a power set, the bare name of a named set
\* and struct({f1: T1, f2: T2}) of a struct with the fields by growing name
\* whatever the order of the field list the struct was built from, children
\* by the same rules; calls that return the same node get the same text.
C26_RenderingOfNode ==
  /\ \A h \in Handles : Format(h) = Rendering(h)
  /\ \A t \in Threads :
       ret[t].kind = "format" => ret[t].val = Rendering(ret[t].node)
  /\ \A e \in returned, f \in returned :
       /\ e.req.op = "Struct" /\ f.req.op = "Struct"
       /\ e.h \in Handles /\ f.h \in Handles
       /\ PairSet(e.req.fields) = PairSet(f.req.fields)
       => Format(e.h) = Format(f.h)

\* The struct built from the fields b: BOOLEAN, a: INTEGER in that order has
\* been rendered as struct({a: INTEGER, b: BOOLEAN}), and the call with the
\* fields in the other order has returned the same node.
C26_Witness ==
  /\ ret[MainThread].kind = "format"
  /\ ret[MainThread].val =
       <<115, 116, 114, 117, 99, 116, 40, 123, 97, 58, 32, 73, 78, 84, 69, 71,
         69, 82, 44, 32, 98, 58, 32, 66, 79, 79, 76, 69, 65, 78, 125, 41>>
  /\ LET r == createdBy[ret[MainThread].node]
     IN /\ r.op = "Struct"
        /\ Len(r.fields) = 2
        /\ r.fields[1].first = <<98>>
        /\ \E e \in returned :
              /\ e.h = ret[MainThread].node
              /\ e.req.op = "Struct"
              /\ e.req.fields = <<r.fields[2], r.fields[1]>>

\* The empty struct has been rendered as struct({}).
C26_EmptyWitness ==
  /\ ret[MainThread].kind = "format"
  /\ createdBy[ret[MainThread].node] = [op |-> "Struct", fields |-> <<>>]
  /\ ret[MainThread].val = <<115, 116, 114, 117, 99, 116, 40, 123, 125, 41>>

\* The records that refer to position i.
ReferencesTo(doc, i) == {k \in 1..Len(doc) : i \in Refs(doc[k])}

\* C28: in a load every position is resolved at most once: a constructor is
\* called for a position only while the position is unresolved and no other
\* invocation for it is pending, its return resolves the position, and a
\* resolved position keeps its node in every later step.
C28_PositionResolvedOnce ==
  [][/\ \A k \in 1..Len(types) :
          types[k] # NULL => Len(types') = Len(types) /\ types'[k] = types[k]
     /\ loadPc = "resolve" /\ loadPc' = "call" =>
          /\ types[Top.pos + 1] = NULL
          /\ \A j \in 1..(Len(frames) - 1) : frames[j].pos # Top.pos
     /\ loadPc = "call" /\ loadPc' # "call" =>
          /\ types'[Top.pos + 1] # NULL
          /\ \A k \in 1..Len(types) :
                k # Top.pos + 1 => types'[k] = types[k]]_vars

\* A load has ended well on a document in which a leaf record after the
\* first is referred to by an earlier and by a later record: the position is
\* reached twice by reference and once by the driving pass.
C28_Witness ==
  /\ loadPc = "done"
  /\ \E i \in 1..(Len(document) - 1) :
        /\ Refs(document[i + 1]) = {}
        /\ \E k \in ReferencesTo(document, i) : k - 1 < i
        /\ \E k \in ReferencesTo(document, i) : k - 1 > i

\* Every position of the document is resolved to a node of the store.
AllResolved ==
  /\ Len(types) = Len(document)
  /\ \A k \in 1..Len(types) : types[k] \in Handles

\* C29: the load of a document with contiguous ids, valid records and
\* in-range acyclic references ends, and ends well, with every position
\* resolved to a node; and in every load the final check finds nothing: when
\* the driving pass is over no position is unresolved.
C29_WellFormedLoadSucceeds ==
  /\ WellFormed(document) ~> (loadPc = "done" /\ AllResolved)
  /\ [](loadPc = "verify" => \A k \in 1..Len(types) : types[k] # NULL)
  /\ [](loadError # "Missing type definition")

\* A well-formed document of the largest size with a forward reference has
\* been loaded.
C29_Witness ==
  /\ loadPc = "done"
  /\ AllResolved
  /\ WellFormed(document)
  /\ Len(document) = MaxRecords
  /\ ForwardReference(document)

\* No two records of the loaded document have resolved to the same node of
\* the store: no two of them denote the same canonical value.
DistinctValues ==
  \A i \in 1..Len(types), j \in 1..Len(types) : i # j => types[i] # types[j]

\* C30: after the load, into an empty store, of a document no two records of
\* which denote the same canonical value: when every reference points to a
\* smaller id, size() is the number of records and at(i) is the node of
\* record i, whose index is i; and the node of a record that a record of
\* smaller id refers to has the smaller index of the two, so that then
\* at(i) is not the node of record i for every i.
C30_IndexByConstructionOrder ==
  loadPc = "done" /\ AllResolved /\ DistinctValues =>
    /\ ~ForwardReference(document) =>
         /\ Len(m_index) = Len(types)
         /\ \A i \in 1..Len(types) :
              m_index[i] = types[i] /\ heap[types[i]].m_index = i - 1
    /\ \A k \in 1..Len(document) :
         \A r \in Refs(document[k]) :
            r > k - 1 => heap[types[r + 1]].m_index < heap[types[k]].m_index
    /\ ForwardReference(document) =>
         \E i \in 1..Len(types) : m_index[i] # types[i]

\* A document of the largest size with a forward reference and distinct
\* values has been loaded: the record referred to got the smaller index.
C30_Witness ==
  /\ loadPc = "done"
  /\ AllResolved
  /\ DistinctValues
  /\ Len(document) = MaxRecords
  /\ \E k \in 1..Len(document) :
        \E r \in Refs(document[k]) :
           /\ r > k - 1
           /\ heap[types[r + 1]].m_index < k - 1
           /\ heap[types[k]].m_index > k - 1

\* A document of the largest size with references to smaller ids only, a
\* struct of two fields among its records, has been loaded into the same
\* places of the index table.
C30_BackwardWitness ==
  /\ loadPc = "done"
  /\ AllResolved
  /\ DistinctValues
  /\ Len(document) = MaxRecords
  /\ ~ForwardReference(document)
  /\ \E k \in 1..Len(document) : Cardinality(Refs(document[k])) = 2
  /\ \A i \in 1..Len(types) : m_index[i] = types[i]

\* C31: calls that have returned the same node had the same key: products
\* the same left and the same right child, power sets the same content,
\* abstract sets the same name; calls of different constructors have
\* returned different nodes; and the node carries the key of the call.
C31_DistinctKeysDistinctNodes ==
  \A e1 \in returned, e2 \in returned :
     e1.h = e2.h /\ e1.h \in Handles =>
       /\ e1.req.op = e2.req.op
       /\ e1.req.op \in {"Product", "PowerSet", "AbstractSet"} =>
            /\ e1.req = e2.req
            /\ NodeKey(heap[e1.h]) = Key(e1.req)

\* product(a, b) and product(b, a), a not b, have returned two nodes.
C31_Witness ==
  \E e1 \in returned, e2 \in returned :
     /\ e1.req.op = "Product" /\ e2.req.op = "Product"
     /\ e1.req.lhs # e1.req.rhs
     /\ e2.req.lhs = e1.req.rhs /\ e2.req.rhs = e1.req.lhs
     /\ e1.h # e2.h

\* abstractSet(n) and enumeratedSet(n, v) have returned two nodes.
C31_KindsWitness ==
  \E e1 \in returned, e2 \in returned :
     /\ e1.req.op = "AbstractSet" /\ e2.req.op = "EnumeratedSet"
     /\ e1.req.name = e2.req.name
     /\ e1.h # e2.h

\* The strings that the hashes of the nodes of the store are made of: leaf
\* labels, "POW", set names and field names.
LabelsInUse ==
  UNION {LET n == heap[h]
         IN CASE n.m_kind \in LeafKinds -> {Label(n.m_kind)}
              [] n.m_kind = "PowerType" -> {Label("PowerType")}
              [] n.m_kind \in {"AbstractSet", "EnumeratedSet"} -> {n.m_name}
              [] n.m_kind = "Struct" -> NameSet(n.m_fields)
              [] OTHER -> {} : h \in Handles}

\* The string hash is injective on the strings in use.
InjectiveOnLabels ==
  \A x \in LabelsInUse, y \in LabelsInUse : StrHash(x) = StrHash(y) => x = y

\* C32: with a string hash that is injective on the labels and names in
\* use, compare(a, b) is 0 only for a and b the same node: nodes that differ
\* never compare equal.
C32_EqualOnlyIfSameNode ==
  \A t \in Threads :
     ret[t].kind = "compare" /\ InjectiveOnLabels /\ ret[t].val = 0 =>
       ret[t].v1 = ret[t].v2

\* C33: two struct calls whose sorted sequences of field names differ have
\* returned two nodes, also for names that contain the separator ';'.
C33_StructNamesTellNodesApart ==
  \A e1 \in returned, e2 \in returned :
     /\ e1.req.op = "Struct" /\ e2.req.op = "Struct"
     /\ SortedNames(e1.req.fields) # SortedNames(e2.req.fields)
     => e1.h # e2.h

\* C34: every reference of every record that a write pass emits while
\* constructors run is an index below the number of records of the pass: no
\* unassigned index and no index of a node the pass does not emit.
C34_WrittenReferencesInRange ==
  loadPc \in {"writing", "written"} =>
    \A k \in 1..Len(document) :
       \A r \in Refs(document[k]) : r >= 0 /\ r < nbTypes

\* The places of the store that hold a node: the leaf slots that are set
\* and the entries of the five maps; and the node a place holds.
HeldPlaces ==
  {<<"m_basicTypes", k>> : k \in {x \in LeafKinds : m_basicTypes[x] # NULL}}
  \cup {<<"m_productTypes", k>> : k \in DOMAIN m_productTypes}
  \cup {<<"m_powerTypes", k>> : k \in DOMAIN m_powerTypes}
  \cup {<<"m_abstractSets", k>> : k \in DOMAIN m_abstractSets}
  \cup {<<"m_enumeratedSets", k>> : k \in DOMAIN m_enumeratedSets}
  \cup {<<"m_structTypes", k>> : k \in DOMAIN m_structTypes}
NodeAt(place) ==
  CASE place[1] = "m_basicTypes" -> m_basicTypes[place[2]]
    [] place[1] = "m_productTypes" -> m_productTypes[place[2]]
    [] place[1] = "m_powerTypes" -> m_powerTypes[place[2]]
    [] place[1] = "m_abstractSets" -> m_abstractSets[place[2]]
    [] place[1] = "m_enumeratedSets" -> m_enumeratedSets[place[2]]
    [] place[1] = "m_structTypes" -> m_structTypes[place[2]]

\* C35: size() is at most the number of nodes held in the leaf slots and
\* the five maps; every node of the index table is held in exactly one slot
\* or map entry and is in the table once; and when no constructor call is in
\* progress size() is that number, every node held being in the table.
C35_Accounting ==
  /\ Len(m_index) <= Cardinality(HeldPlaces)
  /\ \A i \in 1..Len(m_index) :
       /\ Cardinality({q \in HeldPlaces : NodeAt(q) = m_index[i]}) = 1
       /\ \A j \in 1..Len(m_index) : m_index[j] = m_index[i] => j = i
  /\ Quiescent =>
       /\ Len(m_index) = Cardinality(HeldPlaces)
       /\ \A q \in HeldPlaces : \E i \in 1..Len(m_index) : m_index[i] = NodeAt(q)

\* Two nodes are held and only one of them is in the table, a constructor
\* call being in progress; and the state at rest with both in the table.
C35_Witness ==
  /\ ~Quiescent
  /\ Cardinality(HeldPlaces) = 2
  /\ Len(m_index) = 1
C35_QuiescentWitness ==
  /\ Quiescent
  /\ Cardinality(HeldPlaces) = 2
  /\ Len(m_index) = 2

\* Node h is held in a slot or map; node h is in the index table.
HeldInCache(h) == \E q \in HeldPlaces : NodeAt(q) = h
InTable(h) == \E i \in 1..Len(m_index) : m_index[i] = h

C36_AssignedWitness ==
  \E t \in Threads :
     /\ pc[t] = "ipush"
     /\ HeldInCache(newType[t])
     /\ ~InTable(newType[t])
     /\ heap[newType[t]].m_index = Len(m_index)

\* The place of node h in the index table (0 when it has none).
Place(h) ==
  IF InTable(h) THEN CHOOSE i \in 1..Len(m_index) : m_index[i] = h ELSE 0

\* C37: in a store that one thread builds by constructor calls and document
\* loads, a composite node that is in the index table has each of its
\* children in the table, at a smaller place and with a smaller index().
C37_ChildrenIndexedBelow ==
  \A h \in Handles :
     InTable(h) =>
        \A c \in Children(heap[h]) :
           /\ InTable(c)
           /\ Place(c) < Place(h)
           /\ heap[c].m_index < heap[h].m_index

\* C37 witness: a load of a document whose first record refers forward has
\* succeeded in a store that held a node before the load, and the composite
\* node of the first record stands above its child.
C37_Witness ==
  /\ loadPc = "done"
  /\ ForwardReference(document)
  /\ \E e \in returned : e.req.op = "Integer" /\ createdBy[e.h] = e.req
  /\ \E h \in Handles :
        /\ Children(heap[h]) # {}
        /\ InTable(h)
        /\ types[1] = h

\* The load has ended without a node for every record.
LoadFailed == loadPc \in {"failed", "out_of_range", "overflow"}

\* C38: when a document that has been loaded successfully is loaded again,
\* the second load does not fail and the store stays as it was at the second
\* call: the same nodes, and the same node at every place of the table.
C38_SecondLoadLeavesStore ==
  source.m_index # <<>> =>
     /\ ~LoadFailed
     /\ heap = source.heap
     /\ m_index = source.m_index

\* C38 witness: the second load of a document with a forward reference and
\* two records of one key has succeeded.
C38_Witness ==
  /\ source.m_index # <<>>
  /\ loadPc = "done"
  /\ ForwardReference(document)
  /\ \E j, k \in 1..Len(types) : j # k /\ types[j] = types[k]

\* C38 witness: the second load has succeeded for a document with two
\* EnumeratedSet records of one name and different values.
C38_ValuesWitness ==
  /\ source.m_index # <<>>
  /\ loadPc = "done"
  /\ \E j, k \in 1..Len(types) :
        /\ j # k
        /\ types[j] = types[k]
        /\ document[j] # document[k]
        /\ heap[types[j]].m_kind = "EnumeratedSet"

\* The ids a record refers to, in the order in which typeOfXmlElement
\* resolves them.
RefSeq(rec) ==
  LET e == Head(rec.def)
  IN CASE e.tag = "PowerSet" -> <<e.arg[1]>>
       [] e.tag = "CartesianProduct" -> <<e.arg1[1], e.arg2[1]>>
       [] e.tag = "StructType" -> [j \in 1..Len(e.fields) |-> e.fields[j].type[1]]
       [] OTHER -> <<>>

\* The store key that the record of a valid document with acyclic references
\* denotes: the key of a product or power set is made of the keys its
\* children denote, that of a named set is its name, that of a struct the
\* string of its sorted field names.
RECURSIVE DenotedKey(_, _, _)
DenotedKey(doc, id, fuel) ==
  LET e == Head(doc[id + 1].def)
      sub(r) == IF fuel = 0 THEN <<>> ELSE DenotedKey(doc, r, fuel - 1)
  IN CASE e.tag \in LeafTags -> <<"m_basicTypes", TagKind(e.tag)>>
       [] e.tag = "PowerSet" -> <<"m_powerTypes", sub(e.arg[1])>>
       [] e.tag = "CartesianProduct" ->
            <<"m_productTypes", <<sub(e.arg1[1]), sub(e.arg2[1])>> >>
       [] e.tag = "AbstractSet" -> <<"m_abstractSets", e.name[1]>>
       [] e.tag = "EnumeratedSet" -> <<"m_enumeratedSets", e.name[1]>>
       [] e.tag = "StructType" ->
            <<"m_structTypes",
              KeyString(CHOOSE sf \in
                          Sort([j \in 1..Len(e.fields) |->
                                  [first |-> e.fields[j].name[1], second |-> 0]]) :
                          TRUE)>>
KeyOfRecord(k) == DenotedKey(document, k - 1, Len(document))

\* The order in which the load constructs the records of a valid document
\* with acyclic references: a record after the records it refers to that
\* are not yet constructed, the records in the order of the driving pass.
RECURSIVE Visit(_, _, _, _)
RECURSIVE VisitAll(_, _, _, _)
Visit(doc, id, seen, fuel) ==
  IF fuel = 0 \/ \E i \in 1..Len(seen) : seen[i] = id THEN seen
  ELSE Append(VisitAll(doc, RefSeq(doc[id + 1]), seen, fuel - 1), id)
VisitAll(doc, ids, seen, fuel) ==
  IF ids = <<>> THEN seen
  ELSE VisitAll(doc, Tail(ids), Visit(doc, Head(ids), seen, fuel), fuel)
ConstructionOrder(doc) ==
  VisitAll(doc, [k \in 1..Len(doc) |-> k - 1], <<>>, Len(doc) + 1)

\* The record (place from 1) that is constructed first among those that
\* denote the key of record k.
FirstOfKey(k) ==
  LET order == ConstructionOrder(document)
      same == {i \in 1..Len(order) : KeyOfRecord(order[i] + 1) = KeyOfRecord(k)}
  IN order[CHOOSE i \in same : \A j \in same : i <= j] + 1

\* Node n carries what record k says: its kind; for an EnumeratedSet its
\* name and values; for a struct its fields, each with the node of the
\* record the field refers to; the children of a product or power set.
Carries(n, k) ==
  LET e == Head(document[k].def)
  IN /\ n.m_kind = TagKind(e.tag)
     /\ e.tag = "EnumeratedSet" =>
          /\ n.m_name = e.name[1]
          /\ n.m_values = [i \in 1..Len(e.values) |-> e.values[i][1]]
     /\ e.tag = "AbstractSet" => n.m_name = e.name[1]
     /\ e.tag = "StructType" =>
          PairSet(n.m_fields) =
            {[first |-> e.fields[j].name[1],
              second |-> types[e.fields[j].type[1] + 1]] : j \in 1..Len(e.fields)}
     /\ e.tag = "PowerSet" => n.m_content = types[e.arg[1] + 1]
     /\ e.tag = "CartesianProduct" =>
          n.lhs = types[e.arg1[1] + 1] /\ n.rhs = types[e.arg2[1] + 1]

\* C39: after a successful load of a document of N records into an empty
\* store, size() is the number of distinct store keys that the records
\* denote, and at most N; two records resolve to the same node exactly when
\* they denote the same key; and that node carries what the record
\* constructed first among them says.
C39_SizeIsNumberOfKeys ==
  loadPc = "done" =>
    /\ Len(m_index) = Cardinality({KeyOfRecord(k) : k \in 1..Len(document)})
    /\ Len(m_index) <= Len(document)
    /\ \A j, k \in 1..Len(document) :
          (KeyOfRecord(j) = KeyOfRecord(k)) <=> (types[j] = types[k])
    /\ \A k \in 1..Len(document) :
          Carries(heap[types[k]], FirstOfKey(k))

\* C39 witness: a load has succeeded in which two EnumeratedSet records of
\* one name and different values share a node with the values of the first.
C39_Witness ==
  /\ loadPc = "done"
  /\ \E j, k \in 1..Len(document) :
        /\ j < k
        /\ types[j] = types[k]
        /\ Head(document[j].def).tag = "EnumeratedSet"
        /\ Head(document[j].def).values # Head(document[k].def).values
        /\ Len(heap[types[k]].m_values) = Len(Head(document[j].def).values)
  /\ Len(m_index) < Len(document)

\* C39 witness: a load has succeeded in which two StructType records with
\* the same field names and different field types share a node, and the
\* record of larger id is the one constructed first, through a forward
\* reference.
C39_StructWitness ==
  /\ loadPc = "done"
  /\ \E j, k \in 1..Len(document) :
        /\ j < k
        /\ types[j] = types[k]
        /\ Head(document[j].def).tag = "StructType"
        /\ document[j].def # document[k].def
        /\ FirstOfKey(j) = k

====
